---- MODULE Spec2Model ----
(***************************************************************************)
(* Model of the split-ui intent registry and dispatch core (registry       *)
(* variant): the intent registry (registry/index.ts), the backend          *)
(* /api/detect-intent handler, HttpProvider, ChatPanel.handleSubmit, the    *)
(* zustand store with its persisted slice, and RightPanel's auto-switch    *)
(* effect.  A second specification covers the legacy variant with the       *)
(* single detect_intent tool and the store field taskUIType.                *)
(*                                                                         *)
(* displayMode of the specification maps onto the store as                  *)
(*   idle    = panelMode 'context' and currentIntent null                   *)
(*   summary = panelMode 'context' and currentIntent set                    *)
(*   full    = panelMode 'task-ui'                                          *)
(* A React effect runs in the commit that follows the state change that     *)
(* altered one of its dependencies; it is modelled as part of the action    *)
(* that makes the change (cleanup of the previous run first).               *)
(***************************************************************************)
EXTENDS Integers, Sequences, FiniteSets, TLC

\* ------------------------------------------------------------------ bounds
MaxTurns == 2          \* user turns submitted in one session
MaxTimers == 2         \* distinct setInterval handles that can be live at once
MaxCalls == 3          \* getLLMProvider calls made in one page load

\* --------------------------------------------------------------- constants
CountdownStart == 3    \* setAutoSwitchCountdown(3)
AutoSwitchThreshold == 8   \* currentIntent.confidence >= 0.8, in tenths
ToolCallConfidence == 10   \* confidence: 1.0, in tenths
NullCountdown == -1    \* autoSwitchCountdown === null
NoTimer == 0           \* the effect returned no cleanup

TimerIds == 1..MaxTimers

\* An absent object (null / undefined)
Null == [null |-> TRUE]
\* {}
EmptyObject == [k \in {} |-> ""]

\* ------------------------------------------------- built-in intent definitions
\* One entry of entities.properties: {type, enum?, description}; enum is <<>>
\* where the schema has none.
Property(name, type, enum) == [name |-> name, type |-> type, enum |-> enum]

addTask ==
  [name |-> "add_task",
   description |-> "Create a new task with optional due date and priority",
   properties |-> <<Property("title", "string", <<>>),
                    Property("dueDate", "string", <<>>),
                    Property("priority", "string", <<"low", "medium", "high">>)>>,
   required |-> <<"title">>]

listTasks ==
  [name |-> "list_tasks",
   description |-> "View current tasks with optional filtering",
   properties |-> <<Property("filter", "string", <<"all", "completed", "pending">>)>>,
   required |-> <<>>]   \* no `required` key: no field is required

completeTask ==
  [name |-> "complete_task",
   description |-> "Mark a task as completed",
   properties |-> <<Property("taskIdentifier", "string", <<>>)>>,
   required |-> <<"taskIdentifier">>]

issueBonus ==
  [name |-> "issue_bonus",
   description |-> "Issue a monetary bonus to an employee",
   properties |-> <<Property("employeeName", "string", <<>>),
                    Property("amount", "number", <<>>),
                    Property("reason", "string", <<>>)>>,
   required |-> <<"employeeName", "amount">>]

\* ------------------------------------------------------------------ registry
\* The registry object: its own properties as <<key, definition>> in insertion
\* order (Object.values order for string keys).

\* position of key k among the own properties, 0 if absent
KeyIndex(reg, k) ==
  IF \E i \in 1..Len(reg) : reg[i][1] = k
    THEN CHOOSE i \in 1..Len(reg) : reg[i][1] = k
    ELSE 0

\* variant: the definition is pushed onto the list whatever its name
RegisterIntentFn_Push(reg, definition) ==
  Append(reg, <<definition.name, definition>>)

\* a definition has a non-empty name and requires only fields it declares
WellFormed(definition) ==
  /\ definition.name # ""
  /\ \A i \in 1..Len(definition.required) :
       \E j \in 1..Len(definition.properties) :
         definition.properties[j].name = definition.required[i]

\* variant: a definition that is not well-formed is not stored
RegisterIntentFn_Validated(reg, definition) ==
  LET i == KeyIndex(reg, definition.name) IN
    IF ~WellFormed(definition)
      THEN reg
      ELSE IF i # 0
        THEN [reg EXCEPT ![i] = <<definition.name, definition>>]
        ELSE Append(reg, <<definition.name, definition>>)

\* registry[definition.name] = definition
RegisterIntentFn(reg, definition) ==
  LET i == KeyIndex(reg, definition.name) IN
    IF i # 0
      THEN [reg EXCEPT ![i] = <<definition.name, definition>>]
      ELSE Append(reg, <<definition.name, definition>>)

\* The registry is an object literal, so a name that is not an own property is
\* looked up on Object.prototype; these are the inherited names used here.
ObjectPrototypeKeys == {"constructor", "toString"}

\* Object.prototype[name]: a function, which is no intent definition
Inherited(name) == [inherited |-> name]

\* variant: only own properties are returned
GetIntentFn_OwnOnly(reg, name) ==
  LET i == KeyIndex(reg, name) IN
    IF i # 0 THEN reg[i][2] ELSE Null

\* return registry[name]
GetIntentFn(reg, name) ==
  LET i == KeyIndex(reg, name) IN
    IF i # 0 THEN reg[i][2]
    ELSE IF name \in ObjectPrototypeKeys THEN Inherited(name)
    ELSE Null

\* Object.values(registry)
GetAllIntentsFn(reg) == [i \in 1..Len(reg) |-> reg[i][2]]

\* variant: the tool carries no list of required fields
Tool_NoRequired(intent) ==
  [name |-> intent.name,
   description |-> intent.description,
   input_schema |-> [type |-> "object",
                     properties |-> intent.properties,
                     required |-> <<>>]]

\* one element of getIntentTools(): {name, description, input_schema}
Tool(intent) ==
  [name |-> intent.name,
   description |-> intent.description,
   input_schema |-> [type |-> "object",
                     properties |-> intent.properties,
                     required |-> intent.required]]

\* variant: the tools are listed from the last registered to the first
GetIntentToolsFn_Reversed(reg) ==
  [i \in 1..Len(reg) |-> Tool(GetAllIntentsFn(reg)[Len(reg) + 1 - i])]

\* getAllIntents().map(intent => ({...}))
GetIntentToolsFn(reg) == [i \in 1..Len(reg) |-> Tool(GetAllIntentsFn(reg)[i])]

\* the module's top-level registerIntent calls
BuiltInRegistry ==
  RegisterIntentFn(RegisterIntentFn(RegisterIntentFn(RegisterIntentFn(
    <<>>, addTask), listTasks), completeTask), issueBonus)

\* --------------------------------------------------------------------- state
VARIABLES
  registry,            \* const registry: Record<string, IntentDefinition>
  messages,            \* store.messages, each [role, content]
  isProcessing,        \* store.isProcessing
  currentIntent,       \* store.currentIntent: Null or [name, confidence, entities]
  panelMode,           \* store.panelMode: "context" | "task-ui"
  autoSwitchCountdown, \* RightPanel useState: NullCountdown or a number
  timers,              \* setInterval handles started and not yet cleared
  cleanupTimer,        \* the handle the effect's current cleanup would clear
  taskUIType,          \* store.taskUIType of the legacy detect_intent variant
  tasks,               \* store.tasks, each [id, title, priority, completed]
  turns,               \* handleSubmit calls whose requests are still in flight
  issued,              \* number of handleSubmit calls accepted so far
  appliedSeq,          \* history: the turn whose intent was last passed to setIntent
  lastCmd,             \* history: last presentation command or activation
  lastTurn,            \* history: how the last finished handleSubmit ended
  lastRegister,        \* history: the last registerIntent call
  lastLookup,          \* history: the last getIntent call and what it returned
  lastTools,           \* history: what the last getIntentTools call returned, and from what
  lastPrompt,          \* history: the history last sent to generateResponse, as labelled
  providerInstance,    \* llm-factory: let providerInstance: LLMProvider | null
  env,                 \* import.meta.env: VITE_LLM_PROVIDER, VITE_API_BASE_URL
  lastProvider         \* history: the getLLMProvider calls made and how the last ended

vars == <<registry, messages, isProcessing, currentIntent, panelMode,
          autoSwitchCountdown, timers, cleanupTimer, taskUIType, tasks, turns, issued,
          appliedSeq, lastCmd, lastTurn, lastRegister, lastLookup, lastTools,
          lastPrompt, providerInstance, env, lastProvider>>

factoryVars == <<providerInstance, env, lastProvider>>

regVars == <<registry, lastRegister, lastLookup>>

dispatchVars == <<currentIntent, panelMode, autoSwitchCountdown, timers, cleanupTimer>>

\* ------------------------------------------------------ provider configuration
\* an environment variable that is not set (undefined and '' are alike to ||)
Unset == ""

\* import.meta.env as built by default: no VITE_ variable is set
DefaultEnv == [VITE_LLM_PROVIDER |-> Unset, VITE_API_BASE_URL |-> Unset]

\* getLLMConfig(): provider and http.baseUrl, each with its default
GetLLMConfig(e) ==
  [provider |-> IF e.VITE_LLM_PROVIDER # Unset THEN e.VITE_LLM_PROVIDER ELSE "http",
   http |-> [baseUrl |-> IF e.VITE_API_BASE_URL # Unset
                           THEN e.VITE_API_BASE_URL
                           ELSE "http://localhost:3001"]]

\* no getLLMProvider call has been made
NoCall == [call |-> 0, kind |-> "none", instance |-> Null, error |-> ""]

\* the module state of llm-factory when the page has loaded, under the default
\* configuration
FactoryInit ==
  /\ providerInstance = Null
  /\ env = DefaultEnv
  /\ lastProvider = NoCall

\* ------------------------------------------------------ model transport inputs
\* The model's reply to /api/detect-intent: no tool_use block, or one tool_use
\* block {name, input}.
NoToolUse == Null

ToolUses ==
  { [name |-> "add_task", input |-> [title |-> "buy milk", priority |-> "high"]],
    [name |-> "add_task", input |-> EmptyObject],
    [name |-> "list_tasks", input |-> [filter |-> "all"]],
    [name |-> "complete_task", input |-> [taskIdentifier |-> "milk"]],
    [name |-> "issue_bonus",
     input |-> [employeeName |-> "Ann", amount |-> "lots", team |-> "ops"]],
    [name |-> "delete_everything", input |-> EmptyObject] }

ModelResponses == {NoToolUse} \cup ToolUses

\* the names of the fields a definition declares
PropertyNames(def) == {def.properties[i].name : i \in 1..Len(def.properties)}

\* the declaration of field k in def
PropertyOf(def, k) ==
  def.properties[CHOOSE i \in 1..Len(def.properties) : def.properties[i].name = k]

\* typeof of a payload value: the payloads drawn above carry JSON strings only
JsTypeOf(v) == "string"

\* value v is of the kind the declaration prop asks for
HasKind(prop, v) ==
  IF prop.enum # <<>>
    THEN \E i \in 1..Len(prop.enum) : prop.enum[i] = v
    ELSE JsTypeOf(v) = prop.type

\* variant: payload keys that the named definition does not declare are dropped
DetectIntentEndpoint_DeclaredOnly(response) ==
  IF response = NoToolUse
    THEN [intent |-> Null]
    ELSE LET def == GetIntentFn(BuiltInRegistry, response.name)
             kept == IF def = Null THEN DOMAIN response.input
                     ELSE DOMAIN response.input \cap PropertyNames(def)
         IN [intent |-> [name |-> response.name,
                         confidence |-> ToolCallConfidence,
                         entities |-> [k \in kept |-> response.input[k]]]]

\* variant: declared fields whose value is not of the declared kind are dropped
DetectIntentEndpoint_Coerced(response) ==
  IF response = NoToolUse
    THEN [intent |-> Null]
    ELSE LET def == GetIntentFn(BuiltInRegistry, response.name)
             kept == IF def = Null THEN DOMAIN response.input
                     ELSE {k \in DOMAIN response.input :
                             k \in PropertyNames(def)
                               => HasKind(PropertyOf(def, k), response.input[k])}
         IN [intent |-> [name |-> response.name,
                         confidence |-> ToolCallConfidence,
                         entities |-> [k \in kept |-> response.input[k]]]]

\* variant: the endpoint reports a graded confidence of 0.7
DetectIntentEndpoint_Graded(response) ==
  IF response = NoToolUse
    THEN [intent |-> Null]
    ELSE [intent |-> [name |-> response.name,
                      confidence |-> ToolCallConfidence - 3,
                      entities |-> response.input]]

\* POST /api/detect-intent, after llmClient.messages.create returned `response`
DetectIntentEndpoint(response) ==
  IF response = NoToolUse
    THEN [intent |-> Null]
    ELSE [intent |-> [name |-> response.name,
                      confidence |-> ToolCallConfidence,
                      entities |-> response.input]]

\* HttpProvider.detectIntent on an ok response: return data.intent
HttpDetectIntent(response) == DetectIntentEndpoint(response).intent

Pending == [st |-> "pending"]
Failed == [st |-> "fail"]
Ok(intent) == [st |-> "ok", intent |-> intent]

\* what the transport hands back for one detect-intent request: a model
\* response, or a failure (network error, non-ok status)
TransportOutcomes == {Failed} \cup ModelResponses

\* what the detectIntent promise settles to for transport outcome r
DetectResult(r) == IF r = Failed THEN Failed ELSE Ok(HttpDetectIntent(r))

\* what a detectIntent promise can settle to
DetectOutcomes == {DetectResult(r) : r \in TransportOutcomes}
GenOutcomes == {"ok", "fail"}

\* ------------------------------------------------------------- RightPanel effect
\* const intentDef = currentIntent ? getIntent(currentIntent.name) : null
IntentDef(reg, ci) == IF ci # Null THEN GetIntentFn(reg, ci.name) ELSE Null

\* some entry of def.entities.required is a key of the extracted entities
HasRequiredField(def, entities) ==
  /\ def # Null
  /\ \E i \in 1..Len(def.required) : def.required[i] \in DOMAIN entities

\* variant: the countdown is also gated on a required field being extracted
AutoSwitchCondition_Required(pm, ci, def) ==
  /\ pm = "context"
  /\ ci # Null
  /\ ci.confidence >= AutoSwitchThreshold
  /\ HasRequiredField(def, ci.entities)

\* the effect's condition
AutoSwitchCondition(pm, ci, def) ==
  /\ pm = "context"
  /\ ci # Null
  /\ ci.confidence >= AutoSwitchThreshold
  /\ def # Null

\* variant: the effect returns no cleanup
EffectCleanup_Skipped(ts, ct) == ts

\* return () => clearInterval(timer): the cleanup of the previous effect run
EffectCleanup(ts, ct) == ts \ {ct}

\* the handle setInterval returns: one that is not live
NewTimer(ts) == CHOOSE i \in TimerIds \ ts : \A j \in TimerIds \ ts : i <= j

\* variant: panelMode is not among the effect's dependencies
AutoSwitchEffect_NoModeDep(reg, pm, ci, ts, ct) ==
  LET cleared == EffectCleanup(ts, ct) IN
    IF ci = currentIntent
      THEN [countdown |-> autoSwitchCountdown, timers |-> ts, cleanup |-> ct]
      ELSE IF AutoSwitchCondition(pm, ci, IntentDef(reg, ci)) /\ TimerIds \ cleared # {}
        THEN [countdown |-> CountdownStart,
              timers |-> cleared \cup {NewTimer(cleared)},
              cleanup |-> NewTimer(cleared)]
        ELSE [countdown |-> NullCountdown,
              timers |-> cleared,
              cleanup |-> NoTimer]

\* One run of the effect after a change of panelMode / currentIntent / intentDef:
\* previous cleanup, then the body.
AutoSwitchEffect(reg, pm, ci, ts, ct) ==
  LET cleared == EffectCleanup(ts, ct) IN
    IF AutoSwitchCondition(pm, ci, IntentDef(reg, ci)) /\ TimerIds \ cleared # {}
      THEN [countdown |-> CountdownStart,
            timers |-> cleared \cup {NewTimer(cleared)},
            cleanup |-> NewTimer(cleared)]
      ELSE [countdown |-> NullCountdown,
            timers |-> cleared,
            cleanup |-> NoTimer]

\* variant: the effect does not run after the commit
CommitDispatch_NoEffect(pm, ci) ==
  /\ panelMode' = pm
  /\ currentIntent' = ci
  /\ UNCHANGED <<autoSwitchCountdown, timers, cleanupTimer>>

\* commit of new panelMode / currentIntent followed by the effect
CommitDispatch(pm, ci) ==
  LET e == AutoSwitchEffect(registry, pm, ci, timers, cleanupTimer) IN
    /\ panelMode' = pm
    /\ currentIntent' = ci
    /\ autoSwitchCountdown' = e.countdown
    /\ timers' = e.timers
    /\ cleanupTimer' = e.cleanup

\* the dispatch state as the presentation layer sees it
Snapshot ==
  [intent |-> currentIntent, mode |-> panelMode,
   countdown |-> autoSwitchCountdown, timers |-> timers]

\* ------------------------------------------------------------------------ Init
Init ==
  /\ registry = BuiltInRegistry
  /\ messages = <<>>
  /\ isProcessing = FALSE
  /\ currentIntent = Null
  /\ panelMode = "context"
  /\ autoSwitchCountdown = NullCountdown
  /\ timers = {}
  /\ cleanupTimer = NoTimer
  /\ taskUIType = "none"
  /\ tasks = <<>>
  /\ turns = {}
  /\ issued = 0
  /\ appliedSeq = 0
  /\ lastCmd = "none"
  /\ lastTurn = [outcome |-> "none", response |-> Pending, detect |-> Pending,
                 before |-> Snapshot]
  /\ lastRegister = Null
  /\ lastLookup = Null
  /\ lastTools = Null
  /\ lastPrompt = <<>>
  /\ FactoryInit

\* ------------------------------------------------------- ChatPanel.handleSubmit
\* const history = messages.map(m => m.content), over the messages of the
\* render in which the form was submitted
ConversationHistory(ms) == [i \in 1..Len(ms) |-> ms[i].content]

\* the taskContext entry handleSubmit adds at the end of the history
TaskContext(ts) ==
  IF Len(ts) > 0 THEN "Current tasks" ELSE "No tasks in the system yet."

\* the label /api/generate-response gives the entry at index i (from 0):
\* i % 2 === 0 ? 'User' : 'Assistant'
ContextLabel(i) == IF i % 2 = 0 THEN "User" ELSE "Assistant"

\* conversationHistory.map((msg, i) => `${label}: ${msg}`), kept as pairs
GenerateContext(conversationHistory) ==
  [i \in 1..Len(conversationHistory) |->
     [label |-> ContextLabel(i - 1), msg |-> conversationHistory[i]]]

\* what the user may have typed when the form is submitted
InputTexts == {"input", " input ", "  ", ""}

\* input.trim()
Trim(input) == IF input \in {"input", " input "} THEN "input" ELSE ""

\* variant: no isProcessing check
CanSubmit_Always(input, processing) == TRUE

\* variant: the input is tested without trimming it
CanSubmit_NoTrim(input, processing) == input # "" /\ ~processing

\* if (!input.trim() || isProcessing) return;
CanSubmit(input, processing) == Trim(input) # "" /\ ~processing

\* variant: accepting a turn also cancels the running countdown and its timer
Submit_Supersedes ==
  /\ issued < MaxTurns
  /\ \E input \in InputTexts :
       /\ CanSubmit(input, isProcessing)
       /\ messages' = Append(messages, [role |-> "user", content |-> Trim(input)])
  /\ isProcessing' = TRUE
  /\ issued' = issued + 1
  /\ turns' = turns \cup {[seq |-> issued + 1, response |-> Pending,
                           detect |-> Pending, gen |-> "pending",
                           settled |-> FALSE]}
  /\ lastTools' = [tools |-> GetIntentToolsFn(registry), registry |-> registry]
  /\ lastPrompt' = GenerateContext(Append(ConversationHistory(messages),
                                          TaskContext(tasks)))
  /\ UNCHANGED factoryVars
  /\ autoSwitchCountdown' = NullCountdown
  /\ timers' = {}
  /\ cleanupTimer' = NoTimer
  /\ UNCHANGED <<regVars, taskUIType, currentIntent, panelMode, tasks, appliedSeq,
                 lastCmd, lastTurn>>

\* handleSubmit up to the await
Submit ==
  /\ issued < MaxTurns
  /\ \E input \in InputTexts :
       /\ CanSubmit(input, isProcessing)
       /\ messages' = Append(messages, [role |-> "user", content |-> Trim(input)])
  /\ isProcessing' = TRUE
  /\ issued' = issued + 1
  /\ turns' = turns \cup {[seq |-> issued + 1, response |-> Pending,
                           detect |-> Pending, gen |-> "pending",
                           settled |-> FALSE]}
  \* HttpProvider.detectIntent: const tools = getIntentTools()
  /\ lastTools' = [tools |-> GetIntentToolsFn(registry), registry |-> registry]
  \* provider.generateResponse(userMessage, [...history, taskContext])
  /\ lastPrompt' = GenerateContext(Append(ConversationHistory(messages),
                                          TaskContext(tasks)))
  /\ UNCHANGED factoryVars
  /\ UNCHANGED <<regVars, taskUIType, dispatchVars, tasks, appliedSeq, lastCmd, lastTurn>>

\* Promise.all([...]) fulfils when both fulfilled, rejects at the first rejection
AllRejected(t) == t.detect = Failed \/ t.gen = "fail"
AllFulfilled(t) == t.detect.st = "ok" /\ t.gen = "ok"

\* {...a, ...b}
Spread(a, b) ==
  [k \in DOMAIN a \cup DOMAIN b |-> IF k \in DOMAIN b THEN b[k] ELSE a[k]]

\* variant: a null result clears the current intent
ApplyIntent_ClearOnNull(intent, seq) ==
  IF intent # Null
    THEN /\ CommitDispatch("context", intent)
         /\ appliedSeq' = seq
         /\ lastCmd' = "activate"
    ELSE /\ CommitDispatch("context", Null)
         /\ UNCHANGED <<appliedSeq, lastCmd>>

\* variant: the new entities are spread over the current ones
ApplyIntent_Merge(intent, seq) ==
  IF intent # Null
    THEN /\ CommitDispatch("context",
                           IF currentIntent # Null
                             THEN [intent EXCEPT !.entities =
                                     Spread(currentIntent.entities, intent.entities)]
                             ELSE intent)
         /\ appliedSeq' = seq
         /\ lastCmd' = "activate"
    ELSE UNCHANGED <<dispatchVars, appliedSeq, lastCmd>>

\* variant: setIntent without setPanelMode
ApplyIntent_IntentOnly(intent, seq) ==
  IF intent # Null
    THEN /\ CommitDispatch(panelMode, intent)
         /\ appliedSeq' = seq
         /\ lastCmd' = "activate"
    ELSE UNCHANGED <<dispatchVars, appliedSeq, lastCmd>>

\* if (intent) { setIntent(intent); setPanelMode('context'); }
ApplyIntent(intent, seq) ==
  IF intent # Null
    THEN /\ CommitDispatch("context", intent)
         /\ appliedSeq' = seq
         /\ lastCmd' = "activate"
    ELSE UNCHANGED <<dispatchVars, appliedSeq, lastCmd>>

\* variant: the catch block also calls clearIntent
AfterAwait_ClearOnError(t) ==
  IF AllRejected(t)
    THEN /\ messages' = Append(messages, [role |-> "assistant", content |-> "error"])
         /\ isProcessing' = FALSE
         /\ lastTurn' = [outcome |-> "failed", response |-> t.response,
                         detect |-> t.detect, before |-> Snapshot]
         /\ CommitDispatch("context", Null)
         /\ UNCHANGED <<appliedSeq, lastCmd>>
    ELSE /\ messages' = Append(messages, [role |-> "assistant", content |-> "reply"])
         /\ ApplyIntent(t.detect.intent, t.seq)
         /\ isProcessing' = FALSE
         /\ lastTurn' = [outcome |-> IF t.detect.intent # Null THEN "applied" ELSE "declined",
                         response |-> t.response, detect |-> t.detect,
                         before |-> Snapshot]

\* variant: a null intent is answered with the error text
AfterAwait_DeclineIsError(t) ==
  IF AllRejected(t)
    THEN /\ messages' = Append(messages, [role |-> "assistant", content |-> "error"])
         /\ isProcessing' = FALSE
         /\ lastTurn' = [outcome |-> "failed", response |-> t.response,
                         detect |-> t.detect, before |-> Snapshot]
         /\ UNCHANGED <<dispatchVars, appliedSeq, lastCmd>>
    ELSE /\ messages' = Append(messages,
                               [role |-> "assistant",
                                content |-> IF t.detect.intent # Null THEN "reply"
                                                                     ELSE "error"])
         /\ ApplyIntent(t.detect.intent, t.seq)
         /\ isProcessing' = FALSE
         /\ lastTurn' = [outcome |-> IF t.detect.intent # Null THEN "applied" ELSE "declined",
                         response |-> t.response, detect |-> t.detect,
                         before |-> Snapshot]

\* variant: setProcessing(false) is the last statement of the try body
AfterAwait_NoFinally(t) ==
  IF AllRejected(t)
    THEN /\ messages' = Append(messages, [role |-> "assistant", content |-> "error"])
         /\ lastTurn' = [outcome |-> "failed", response |-> t.response,
                         detect |-> t.detect, before |-> Snapshot]
         /\ UNCHANGED <<isProcessing, dispatchVars, appliedSeq, lastCmd>>
    ELSE /\ messages' = Append(messages, [role |-> "assistant", content |-> "reply"])
         /\ ApplyIntent(t.detect.intent, t.seq)
         /\ isProcessing' = FALSE
         /\ lastTurn' = [outcome |-> IF t.detect.intent # Null THEN "applied" ELSE "declined",
                         response |-> t.response, detect |-> t.detect,
                         before |-> Snapshot]

\* variant: the catch block appends no message
AfterAwait_SilentFailure(t) ==
  IF AllRejected(t)
    THEN /\ isProcessing' = FALSE
         /\ lastTurn' = [outcome |-> "failed", response |-> t.response,
                         detect |-> t.detect, before |-> Snapshot]
         /\ UNCHANGED <<messages, dispatchVars, appliedSeq, lastCmd>>
    ELSE /\ messages' = Append(messages, [role |-> "assistant", content |-> "reply"])
         /\ ApplyIntent(t.detect.intent, t.seq)
         /\ isProcessing' = FALSE
         /\ lastTurn' = [outcome |-> IF t.detect.intent # Null THEN "applied" ELSE "declined",
                         response |-> t.response, detect |-> t.detect,
                         before |-> Snapshot]

\* the code after the await: try body, catch, finally
AfterAwait(t) ==
  IF AllRejected(t)
    THEN /\ messages' = Append(messages, [role |-> "assistant", content |-> "error"])
         /\ isProcessing' = FALSE
         /\ lastTurn' = [outcome |-> "failed", response |-> t.response,
                         detect |-> t.detect, before |-> Snapshot]
         /\ UNCHANGED <<dispatchVars, appliedSeq, lastCmd>>
    ELSE /\ messages' = Append(messages, [role |-> "assistant", content |-> "reply"])
         /\ ApplyIntent(t.detect.intent, t.seq)
         /\ isProcessing' = FALSE
         /\ lastTurn' = [outcome |-> IF t.detect.intent # Null THEN "applied" ELSE "declined",
                         response |-> t.response, detect |-> t.detect,
                         before |-> Snapshot]

\* one of the two requests of turn t settles (t2 is t with the outcome recorded)
Arrive(t, t2) ==
  LET settles == ~t.settled /\ (AllRejected(t2) \/ AllFulfilled(t2))
      t3 == [t2 EXCEPT !.settled = t.settled \/ settles]
      done == t3.detect # Pending /\ t3.gen # "pending"
  IN /\ turns' = (turns \ {t}) \cup (IF done THEN {} ELSE {t3})
     /\ IF settles
          THEN AfterAwait(t3)
          ELSE UNCHANGED <<messages, isProcessing, dispatchVars, appliedSeq,
                           lastCmd, lastTurn>>
     /\ UNCHANGED <<regVars, taskUIType, lastTools, lastPrompt, factoryVars, tasks, issued>>

DetectSettles ==
  \E t \in turns : \E r \in TransportOutcomes :
    /\ t.detect = Pending
    /\ Arrive(t, [t EXCEPT !.response = r, !.detect = DetectResult(r)])

GenerateSettles ==
  \E t \in turns : \E o \in GenOutcomes :
    /\ t.gen = "pending"
    /\ Arrive(t, [t EXCEPT !.gen = o])

\* ----------------------------------------------------------------- RightPanel
\* variant: the updater expires at prev <= 0
TickExpires_AtZero(prev) == prev = NullCountdown \/ prev <= 0

\* the interval callback's updater: prev === null || prev <= 1
TickExpires(prev) == prev = NullCountdown \/ prev <= 1

\* setInterval callback of a live timer
Tick ==
  \E id \in timers :
    /\ IF TickExpires(autoSwitchCountdown)
         THEN \* clearInterval(timer); setPanelMode('task-ui'); return null
              LET e == AutoSwitchEffect(registry, "task-ui", currentIntent,
                                        timers \ {id}, cleanupTimer) IN
                /\ panelMode' = "task-ui"
                /\ autoSwitchCountdown' = e.countdown
                /\ timers' = e.timers
                /\ cleanupTimer' = e.cleanup
         ELSE /\ autoSwitchCountdown' = autoSwitchCountdown - 1
              /\ UNCHANGED <<panelMode, timers, cleanupTimer>>
    /\ UNCHANGED <<regVars, taskUIType, lastTools, lastPrompt, factoryVars, messages, isProcessing, currentIntent,
                   tasks, turns, issued, appliedSeq, lastCmd, lastTurn>>

\* variant: the buttons do not depend on intentDef
ButtonsShown_NoDef ==
  /\ panelMode = "context"
  /\ currentIntent # Null

\* variant: the buttons are rendered only while the countdown is shown
ButtonsShown_WhileCounting ==
  /\ panelMode = "context"
  /\ currentIntent # Null
  /\ IntentDef(registry, currentIntent) # Null
  /\ autoSwitchCountdown # NullCountdown

\* the buttons are rendered under panelMode === 'context' && currentIntent && intentDef
ButtonsShown ==
  /\ panelMode = "context"
  /\ currentIntent # Null
  /\ IntentDef(registry, currentIntent) # Null

\* what cancelAutoSwitch leaves of the live timers: it only sets the countdown
CancelledTimers(ts, ct) == ts

\* "Cancel Auto-Switch": setAutoSwitchCountdown(null)
CancelAutoSwitch ==
  /\ ButtonsShown
  /\ autoSwitchCountdown # NullCountdown
  /\ autoSwitchCountdown' = NullCountdown
  /\ timers' = CancelledTimers(timers, cleanupTimer)
  /\ lastCmd' = "cancel"
  /\ UNCHANGED <<regVars, taskUIType, lastTools, lastPrompt, factoryVars, messages, isProcessing, currentIntent,
                 panelMode, cleanupTimer, tasks, turns, issued, appliedSeq,
                 lastTurn>>

\* "Open Now" (shown while the countdown is present) / "Open Task UI" (shown
\* otherwise): setPanelMode('task-ui')
PromoteNow ==
  /\ ButtonsShown
  /\ CommitDispatch("task-ui", currentIntent)
  /\ lastCmd' = IF autoSwitchCountdown # NullCountdown THEN "promote" ELSE "open"
  /\ UNCHANGED <<regVars, taskUIType, lastTools, lastPrompt, factoryVars, messages, isProcessing, tasks, turns,
                 issued, appliedSeq, lastTurn>>

\* the intent's component is rendered under panelMode 'task-ui' && intentDef
TaskUIShown ==
  /\ panelMode = "task-ui"
  /\ IntentDef(registry, currentIntent) # Null

\* variant: clearIntent resets currentIntent only
StoreClearIntent_IntentOnly == CommitDispatch(panelMode, Null)

\* store.clearIntent: set({ currentIntent: null, panelMode: 'context' })
StoreClearIntent == CommitDispatch("context", Null)

\* store.clearIntent, from a component's Cancel / Close button
ClearIntent ==
  /\ TaskUIShown
  /\ StoreClearIntent
  /\ lastCmd' = "dismiss"
  /\ UNCHANGED <<regVars, taskUIType, lastTools, lastPrompt, factoryVars, messages, isProcessing, tasks, turns,
                 issued, appliedSeq, lastTurn>>

\* ------------------------------------------------------- intent components
\* <Component /> of the current intent's definition is on screen
ComponentShown(name) == TaskUIShown /\ currentIntent.name = name

\* (entities.k as string) || ''
Entity(entities, k) == IF k \in DOMAIN entities THEN entities[k] ELSE ""

\* store.addTask: the task is appended with a fresh id (crypto.randomUUID();
\* createdAt is a clock reading and is left out)
AddTaskFn(ts, taskData) ==
  Append(ts, [id |-> Len(ts) + 1,
              title |-> taskData.title,
              dueDate |-> taskData.dueDate,
              priority |-> taskData.priority,
              completed |-> taskData.completed])

\* variant: toggleTask marks the task completed
ToggleTaskFn_MarkDone(ts, id) ==
  [i \in 1..Len(ts) |->
     IF ts[i].id = id THEN [ts[i] EXCEPT !.completed = TRUE]
                      ELSE ts[i]]

\* store.toggleTask
ToggleTaskFn(ts, id) ==
  [i \in 1..Len(ts) |->
     IF ts[i].id = id THEN [ts[i] EXCEPT !.completed = ~ts[i].completed]
                      ELSE ts[i]]

\* variant: handleCreate passes the title as it stands in the form
HandleCreate_RawTitle ==
  /\ ComponentShown("add_task")
  /\ LET title == Entity(currentIntent.entities, "title")
         dueDate == Entity(currentIntent.entities, "dueDate")
         priority == IF Entity(currentIntent.entities, "priority") # ""
                       THEN Entity(currentIntent.entities, "priority")
                       ELSE "medium"
     IN tasks' = AddTaskFn(tasks, [title |-> title,
                                   dueDate |-> dueDate,
                                   priority |-> priority,
                                   completed |-> FALSE])
  /\ messages' = Append(messages, [role |-> "assistant", content |-> "created"])
  /\ StoreClearIntent
  /\ lastCmd' = "create"
  /\ UNCHANGED <<regVars, taskUIType, lastTools, lastPrompt, factoryVars, isProcessing, turns, issued, appliedSeq,
                 lastTurn>>

\* AddTaskUI.handleCreate with the form as it was prefilled from the entities
\* (dueDate "" stands for undefined)
HandleCreate ==
  /\ ComponentShown("add_task")
  /\ LET title == Entity(currentIntent.entities, "title")
         dueDate == Entity(currentIntent.entities, "dueDate")
         priority == IF Entity(currentIntent.entities, "priority") # ""
                       THEN Entity(currentIntent.entities, "priority")
                       ELSE "medium"
     IN tasks' = AddTaskFn(tasks, [title |-> IF title # "" THEN title
                                                          ELSE "Untitled Task",
                                   dueDate |-> dueDate,
                                   priority |-> priority,
                                   completed |-> FALSE])
  /\ messages' = Append(messages, [role |-> "assistant", content |-> "created"])
  /\ StoreClearIntent
  /\ lastCmd' = "create"
  /\ UNCHANGED <<regVars, taskUIType, lastTools, lastPrompt, factoryVars, isProcessing, turns, issued, appliedSeq,
                 lastTurn>>

\* the pairs <<s, q>> of the strings used here, lower-cased, with q a proper
\* substring of s
ProperSubstrings == {<<"buy milk", "milk">>}

\* title.toLowerCase().includes(taskIdentifier.toLowerCase())
TitleIncludes(title, taskIdentifier) ==
  \/ taskIdentifier = ""
  \/ taskIdentifier = title
  \/ <<title, taskIdentifier>> \in ProperSubstrings

\* variant: the matching tasks are offered whether completed or not
OfferedTasks_Unfiltered(ts, entities) ==
  LET taskIdentifier == Entity(entities, "taskIdentifier")
      matchingTasks == {i \in 1..Len(ts) : TitleIncludes(ts[i].title, taskIdentifier)}
  IN IF matchingTasks = {}
       THEN {i \in 1..Len(ts) : ~ts[i].completed}
       ELSE matchingTasks

\* the tasks CompleteTaskUI renders a button for
OfferedTasks(ts, entities) ==
  LET taskIdentifier == Entity(entities, "taskIdentifier")
      matchingTasks == {i \in 1..Len(ts) : TitleIncludes(ts[i].title, taskIdentifier)}
  IN IF matchingTasks = {}
       THEN {i \in 1..Len(ts) : ~ts[i].completed}
       ELSE {i \in matchingTasks : ~ts[i].completed}

\* CompleteTaskUI.handleComplete(task.id, task.title)
HandleComplete ==
  /\ ComponentShown("complete_task")
  /\ \E i \in OfferedTasks(tasks, currentIntent.entities) :
       tasks' = ToggleTaskFn(tasks, tasks[i].id)
  /\ messages' = Append(messages, [role |-> "assistant", content |-> "completed"])
  /\ StoreClearIntent
  /\ lastCmd' = "complete"
  /\ UNCHANGED <<regVars, taskUIType, lastTools, lastPrompt, factoryVars, isProcessing, turns, issued, appliedSeq,
                 lastTurn>>

\* IssueBonusUI.handleIssue
HandleIssue ==
  /\ ComponentShown("issue_bonus")
  /\ messages' = Append(messages, [role |-> "assistant", content |-> "issued"])
  /\ StoreClearIntent
  /\ lastCmd' = "issue"
  /\ UNCHANGED <<regVars, taskUIType, lastTools, lastPrompt, factoryVars, isProcessing, tasks, turns, issued,
                 appliedSeq, lastTurn>>

\* ListTasksUI checkbox: toggleTask(task.id)
ToggleTask ==
  /\ ComponentShown("list_tasks")
  /\ \E i \in 1..Len(tasks) : tasks' = ToggleTaskFn(tasks, tasks[i].id)
  /\ UNCHANGED <<regVars, taskUIType, lastTools, lastPrompt, factoryVars, messages, isProcessing, dispatchVars,
                 turns, issued, appliedSeq, lastCmd, lastTurn>>

\* ------------------------------------------------------------- persistence
\* the data fields of the store
StoreState ==
  [messages |-> messages, isProcessing |-> isProcessing,
   currentIntent |-> currentIntent, panelMode |-> panelMode, tasks |-> tasks]

\* the store's initial state
InitialState ==
  [messages |-> <<>>, isProcessing |-> FALSE, currentIntent |-> Null,
   panelMode |-> "context", tasks |-> <<>>]

\* variant: the whole state is written to storage
Partialize_All(state) == state

\* partialize: what persist writes to localStorage after each set()
Partialize(state) == [tasks |-> state.tasks, messages |-> state.messages]

\* persist on start-up: the stored slice laid over the initial state
Rehydrate(persisted) ==
  [k \in DOMAIN InitialState |->
     IF k \in DOMAIN persisted THEN persisted[k] ELSE InitialState[k]]

\* The page is reloaded: pending fetches and intervals die with the old page,
\* the store is created anew and rehydrated from storage, RightPanel mounts with
\* useState(null) and its effect runs once.
Reload ==
  LET s == Rehydrate(Partialize(StoreState))
      e == AutoSwitchEffect(registry, s.panelMode, s.currentIntent, {}, NoTimer)
  IN /\ messages' = s.messages
     /\ isProcessing' = s.isProcessing
     /\ currentIntent' = s.currentIntent
     /\ panelMode' = s.panelMode
     /\ tasks' = s.tasks
     /\ autoSwitchCountdown' = e.countdown
     /\ timers' = e.timers
     /\ cleanupTimer' = e.cleanup
     /\ turns' = {}
     /\ lastCmd' = "reload"
     /\ lastTurn' = [outcome |-> "none", response |-> Pending, detect |-> Pending,
                     before |-> [intent |-> Null, mode |-> "context",
                                 countdown |-> NullCountdown, timers |-> {}]]
     /\ UNCHANGED <<regVars, taskUIType, lastTools, lastPrompt, factoryVars, issued, appliedSeq>>

Next ==
  \/ Submit
  \/ DetectSettles
  \/ GenerateSettles
  \/ Tick
  \/ CancelAutoSwitch
  \/ PromoteNow
  \/ ClearIntent
  \/ HandleCreate
  \/ HandleComplete
  \/ HandleIssue
  \/ ToggleTask
  \/ Reload

Spec == Init /\ [][Next]_vars

\* Every fetch settles, with a response or a network error.
LiveSpec ==
  /\ Spec
  /\ WF_vars(DetectSettles)
  /\ WF_vars(GenerateSettles)

\* A live interval keeps firing.
TickSpec == Spec /\ WF_vars(Tick)

\* ------------------------------------------------------- registry at start-up
\* further definitions a module may pass to registerIntent: the built-in ones and
\* revisions of two of them under the same name
addTaskRevised ==
  [name |-> "add_task",
   description |-> "Create a task",
   properties |-> <<Property("title", "string", <<>>)>>,
   required |-> <<"title">>]

listTasksRevised ==
  [name |-> "list_tasks",
   description |-> "Show tasks",
   properties |-> <<Property("filter", "string", <<"all", "completed", "pending">>),
                    Property("sort", "string", <<>>)>>,
   required |-> <<"filter">>]

Definitions ==
  {addTask, listTasks, completeTask, issueBonus, addTaskRevised, listTasksRevised}

\* registerIntent(definition)
RegisterIntent(definition) ==
  /\ registry' = RegisterIntentFn(registry, definition)
  /\ lastRegister' = [definition |-> definition, before |-> registry]
  /\ UNCHANGED <<messages, isProcessing, dispatchVars, taskUIType, tasks, turns,
                 issued, appliedSeq, lastCmd, lastTurn, lastLookup, lastTools, lastPrompt, factoryVars>>

\* const registry = {}: the registry before any registerIntent call
RegistryInit ==
  /\ registry = <<>>
  /\ messages = <<>>
  /\ isProcessing = FALSE
  /\ currentIntent = Null
  /\ panelMode = "context"
  /\ autoSwitchCountdown = NullCountdown
  /\ timers = {}
  /\ cleanupTimer = NoTimer
  /\ taskUIType = "none"
  /\ tasks = <<>>
  /\ turns = {}
  /\ issued = 0
  /\ appliedSeq = 0
  /\ lastCmd = "none"
  /\ lastTurn = [outcome |-> "none", response |-> Pending, detect |-> Pending,
                 before |-> Snapshot]
  /\ lastRegister = Null
  /\ lastLookup = Null
  /\ lastTools = Null
  /\ lastPrompt = <<>>
  /\ FactoryInit

\* a getIntentTools() call
GetIntentTools ==
  /\ lastTools' = [tools |-> GetIntentToolsFn(registry), registry |-> registry]
  /\ UNCHANGED <<regVars, taskUIType, messages, isProcessing, dispatchVars, tasks, turns,
                 issued, appliedSeq, lastCmd, lastTurn, lastPrompt, factoryVars>>

RegistryNext ==
  \/ \E d \in Definitions : RegisterIntent(d)
  \/ GetIntentTools

RegistrySpec == RegistryInit /\ [][RegistryNext]_vars

\* definitions of the IntentDefinition type that a module may also pass to
\* registerIntent: one with the empty string as its name, one that requires a
\* field it does not declare
unnamedIntent ==
  [name |-> "",
   description |-> "Rename a task",
   properties |-> <<Property("title", "string", <<>>)>>,
   required |-> <<"title">>]

danglingRequired ==
  [name |-> "set_reminder",
   description |-> "Remind the user of a task",
   properties |-> <<Property("taskIdentifier", "string", <<>>)>>,
   required |-> <<"taskIdentifier", "when">>]

Descriptors == {addTask, listTasks, unnamedIntent, danglingRequired}

\* the names getIntent is called with: names that get registered, one that
\* never is, and two that every object inherits
LookupNames == {"add_task", "set_reminder", "delete_everything", ""} \cup ObjectPrototypeKeys

\* a getIntent(name) call
GetIntent(name) ==
  /\ lastLookup' = [name |-> name, result |-> GetIntentFn(registry, name)]
  /\ UNCHANGED <<registry, lastRegister, messages, isProcessing, dispatchVars,
                 taskUIType, tasks, turns, issued, appliedSeq, lastCmd, lastTurn,
                 lastTools, lastPrompt, factoryVars>>

DescriptorNext ==
  \/ \E d \in Descriptors : RegisterIntent(d)
  \/ GetIntentTools
  \/ \E name \in LookupNames : GetIntent(name)

DescriptorSpec == RegistryInit /\ [][DescriptorNext]_vars

\* ------------------------------------------- legacy detect_intent variant
\* The variant with the single detect_intent tool (services/claude.ts), the
\* store field taskUIType and RightPanel's effect over it.  The model's reply
\* carries the tool input {intent, confidence, entities}; confidence in tenths.
LegacyFloor == 7       \* confidence < 0.7

LegacyConfidences == {6, 7, 8}

\* the tool's enum of intents
LegacyIntentNames == {"add_task", "list_tasks", "complete_task", "none"}

LegacyToolUses ==
  { [name |-> "detect_intent",
     input |-> [intent |-> n, confidence |-> c, entities |-> EmptyObject]] :
      n \in LegacyIntentNames, c \in LegacyConfidences }

LegacyTransportOutcomes == {Failed, NoToolUse} \cup LegacyToolUses

\* variant: no confidence floor
LegacyDetectIntent_NoFloor(response) ==
  IF response = NoToolUse THEN Null
  ELSE IF response.input.intent = "none" THEN Null
  ELSE [name |-> response.input.intent,
        confidence |-> response.input.confidence,
        entities |-> response.input.entities]

\* detectIntent of services/claude.ts, after client.messages.create returned
LegacyDetectIntent(response) ==
  IF response = NoToolUse THEN Null
  ELSE IF response.input.confidence < LegacyFloor \/ response.input.intent = "none"
    THEN Null
  ELSE [name |-> response.input.intent,
        confidence |-> response.input.confidence,
        entities |-> response.input.entities]

\* what the detectIntent promise settles to for transport outcome r
LegacyDetectResult(r) == IF r = Failed THEN Failed ELSE Ok(LegacyDetectIntent(r))

\* handleSubmit's mapping of the intent name to the UI type; another name
\* leaves the UI type as it is
TaskUITypeFor(name, ui) ==
  IF name = "add_task" THEN "add-task"
  ELSE IF name = "list_tasks" THEN "list-tasks"
  ELSE IF name = "complete_task" THEN "complete-task"
  ELSE ui

\* the legacy effect's condition
LegacyAutoSwitchCondition(pm, ci, ui) ==
  /\ pm = "context"
  /\ ci # Null
  /\ ci.confidence >= AutoSwitchThreshold
  /\ ui # "none"

\* one run of the legacy effect after a change of panelMode / currentIntent /
\* taskUIType: previous cleanup, then the body
LegacyAutoSwitchEffect(pm, ci, ui, ts, ct) ==
  LET cleared == EffectCleanup(ts, ct) IN
    IF LegacyAutoSwitchCondition(pm, ci, ui) /\ TimerIds \ cleared # {}
      THEN [countdown |-> CountdownStart,
            timers |-> cleared \cup {NewTimer(cleared)},
            cleanup |-> NewTimer(cleared)]
      ELSE [countdown |-> NullCountdown,
            timers |-> cleared,
            cleanup |-> NoTimer]

\* commit of new panelMode / currentIntent / taskUIType followed by the effect
LegacyCommit(pm, ci, ui) ==
  LET e == LegacyAutoSwitchEffect(pm, ci, ui, timers, cleanupTimer) IN
    /\ panelMode' = pm
    /\ currentIntent' = ci
    /\ taskUIType' = ui
    /\ autoSwitchCountdown' = e.countdown
    /\ timers' = e.timers
    /\ cleanupTimer' = e.cleanup

legacyDispatchVars ==
  <<currentIntent, panelMode, taskUIType, autoSwitchCountdown, timers, cleanupTimer>>

\* legacy handleSubmit up to the await
LegacySubmit ==
  /\ issued < MaxTurns
  /\ \E input \in InputTexts :
       /\ CanSubmit(input, isProcessing)
       /\ messages' = Append(messages, [role |-> "user", content |-> Trim(input)])
  /\ isProcessing' = TRUE
  /\ issued' = issued + 1
  /\ turns' = turns \cup {[seq |-> issued + 1, response |-> Pending,
                           detect |-> Pending, gen |-> "pending",
                           settled |-> FALSE]}
  \* generateResponse(userMessage, history)
  /\ lastPrompt' = GenerateContext(ConversationHistory(messages))
  /\ UNCHANGED factoryVars
  /\ UNCHANGED <<regVars, lastTools, legacyDispatchVars, tasks, appliedSeq,
                 lastCmd, lastTurn>>

\* legacy handleSubmit after the await: try body, catch, finally
LegacyAfterAwait(t) ==
  IF AllRejected(t)
    THEN /\ messages' = Append(messages, [role |-> "assistant", content |-> "error"])
         /\ isProcessing' = FALSE
         /\ lastTurn' = [outcome |-> "failed", response |-> t.response,
                         detect |-> t.detect, before |-> Snapshot]
         /\ UNCHANGED <<legacyDispatchVars, appliedSeq, lastCmd>>
    ELSE /\ messages' = Append(messages, [role |-> "assistant", content |-> "reply"])
         /\ IF t.detect.intent # Null
              THEN /\ LegacyCommit("context", t.detect.intent,
                                   TaskUITypeFor(t.detect.intent.name, taskUIType))
                   /\ appliedSeq' = t.seq
                   /\ lastCmd' = "activate"
              ELSE UNCHANGED <<legacyDispatchVars, appliedSeq, lastCmd>>
         /\ isProcessing' = FALSE
         /\ lastTurn' = [outcome |-> IF t.detect.intent # Null THEN "applied" ELSE "declined",
                         response |-> t.response, detect |-> t.detect,
                         before |-> Snapshot]

\* one of the two requests of turn t settles (t2 is t with the outcome recorded)
LegacyArrive(t, t2) ==
  LET settles == ~t.settled /\ (AllRejected(t2) \/ AllFulfilled(t2))
      t3 == [t2 EXCEPT !.settled = t.settled \/ settles]
      done == t3.detect # Pending /\ t3.gen # "pending"
  IN /\ turns' = (turns \ {t}) \cup (IF done THEN {} ELSE {t3})
     /\ IF settles
          THEN LegacyAfterAwait(t3)
          ELSE UNCHANGED <<messages, isProcessing, legacyDispatchVars, appliedSeq,
                           lastCmd, lastTurn>>
     /\ UNCHANGED <<regVars, lastTools, lastPrompt, factoryVars, tasks, issued>>

LegacyDetectSettles ==
  \E t \in turns : \E r \in LegacyTransportOutcomes :
    /\ t.detect = Pending
    /\ LegacyArrive(t, [t EXCEPT !.response = r, !.detect = LegacyDetectResult(r)])

LegacyGenerateSettles ==
  \E t \in turns : \E o \in GenOutcomes :
    /\ t.gen = "pending"
    /\ LegacyArrive(t, [t EXCEPT !.gen = o])

\* setInterval callback of a live timer
LegacyTick ==
  \E id \in timers :
    /\ IF TickExpires(autoSwitchCountdown)
         THEN LET e == LegacyAutoSwitchEffect("task-ui", currentIntent, taskUIType,
                                              timers \ {id}, cleanupTimer) IN
                /\ panelMode' = "task-ui"
                /\ autoSwitchCountdown' = e.countdown
                /\ timers' = e.timers
                /\ cleanupTimer' = e.cleanup
         ELSE /\ autoSwitchCountdown' = autoSwitchCountdown - 1
              /\ UNCHANGED <<panelMode, timers, cleanupTimer>>
    /\ UNCHANGED <<regVars, lastTools, lastPrompt, factoryVars, messages, isProcessing, currentIntent,
                   taskUIType, tasks, turns, issued, appliedSeq, lastCmd, lastTurn>>

\* the buttons are rendered under panelMode === 'context' && currentIntent &&
\* taskUIType !== 'none'
LegacyButtonsShown ==
  /\ panelMode = "context"
  /\ currentIntent # Null
  /\ taskUIType # "none"

\* "Cancel Auto-Switch": setAutoSwitchCountdown(null)
LegacyCancelAutoSwitch ==
  /\ LegacyButtonsShown
  /\ autoSwitchCountdown # NullCountdown
  /\ autoSwitchCountdown' = NullCountdown
  /\ lastCmd' = "cancel"
  /\ UNCHANGED <<regVars, lastTools, lastPrompt, factoryVars, messages, isProcessing, currentIntent,
                 panelMode, taskUIType, timers, cleanupTimer, tasks, turns,
                 issued, appliedSeq, lastTurn>>

\* "Open Now" / "Open Task UI": setPanelMode('task-ui')
LegacyPromoteNow ==
  /\ LegacyButtonsShown
  /\ LegacyCommit("task-ui", currentIntent, taskUIType)
  /\ lastCmd' = IF autoSwitchCountdown # NullCountdown THEN "promote" ELSE "open"
  /\ UNCHANGED <<regVars, lastTools, lastPrompt, factoryVars, messages, isProcessing, tasks, turns,
                 issued, appliedSeq, lastTurn>>

\* the Cancel / Close button of the task UI on screen: store.clearIntent, which
\* here also resets taskUIType
LegacyClearIntent ==
  /\ panelMode = "task-ui"
  /\ taskUIType # "none"
  /\ LegacyCommit("context", Null, "none")
  /\ lastCmd' = "dismiss"
  /\ UNCHANGED <<regVars, lastTools, lastPrompt, factoryVars, messages, isProcessing, tasks, turns,
                 issued, appliedSeq, lastTurn>>

LegacyNext ==
  \/ LegacySubmit
  \/ LegacyDetectSettles
  \/ LegacyGenerateSettles
  \/ LegacyTick
  \/ LegacyCancelAutoSwitch
  \/ LegacyPromoteNow
  \/ LegacyClearIntent

LegacySpec == Init /\ [][LegacyNext]_vars

\* ------------------------------------------------- start-up with stored tasks
\* A stored task, as persist rehydrates it
StoredTask(id, title, completed) ==
  [id |-> id, title |-> title, dueDate |-> "", priority |-> "medium",
   completed |-> completed]

\* task lists found in storage at start-up, left by earlier sessions with
\* open and completed tasks
StoredTaskLists ==
  { <<StoredTask(1, "buy milk", FALSE), StoredTask(2, "Untitled Task", TRUE)>>,
    <<StoredTask(1, "Untitled Task", FALSE), StoredTask(2, "Untitled Task", FALSE)>> }

\* the state after construction when storage holds tasks of an earlier session
StoredInit ==
  /\ registry = BuiltInRegistry
  /\ messages = <<>>
  /\ isProcessing = FALSE
  /\ currentIntent = Null
  /\ panelMode = "context"
  /\ autoSwitchCountdown = NullCountdown
  /\ timers = {}
  /\ cleanupTimer = NoTimer
  /\ taskUIType = "none"
  /\ tasks \in StoredTaskLists
  /\ turns = {}
  /\ issued = 0
  /\ appliedSeq = 0
  /\ lastCmd = "none"
  /\ lastTurn = [outcome |-> "none", response |-> Pending, detect |-> Pending,
                 before |-> Snapshot]
  /\ lastRegister = Null
  /\ lastLookup = Null
  /\ lastTools = Null
  /\ lastPrompt = <<>>
  /\ FactoryInit

StoredSpec == StoredInit /\ [][Next]_vars

\* ------------------------------------------------------------ provider factory
\* the values VITE_LLM_PROVIDER is given: not set, the three ProviderTypes and
\* a name that is none of them
ProviderSettings == {Unset, "http", "anthropic", "bedrock", "openai"}

\* the values VITE_API_BASE_URL is given
BaseUrlSettings == {Unset, "https://llm.example"}

\* new HttpProvider(baseUrl): each construction yields a distinct object, told
\* apart here by the number of the call that built it
NewHttpProvider(n, baseUrl) == [id |-> n, baseUrl |-> baseUrl]

\* the message of the Error getLLMProvider throws for a provider setting
ProviderError(provider) ==
  CASE provider = "anthropic" -> "Direct Anthropic provider is no longer supported in the browser"
    [] provider = "bedrock" -> "Direct Bedrock provider is not supported in the browser"
    [] OTHER -> "Unknown LLM provider"

\* variant: getLLMProvider builds a provider on every call
GetLLMProvider_Uncached ==
  /\ lastProvider.call < MaxCalls
  /\ LET n == lastProvider.call + 1
         config == GetLLMConfig(env)
     IN IF config.provider = "http"
          THEN /\ providerInstance' = NewHttpProvider(n, config.http.baseUrl)
               /\ lastProvider' = [call |-> n, kind |-> "returned",
                                   instance |-> providerInstance', error |-> ""]
          ELSE /\ lastProvider' = [call |-> n, kind |-> "thrown", instance |-> Null,
                                   error |-> ProviderError(config.provider)]
               /\ UNCHANGED providerInstance
  /\ UNCHANGED <<env, regVars, taskUIType, lastTools, lastPrompt, messages, isProcessing,
                 dispatchVars, tasks, turns, issued, appliedSeq, lastCmd, lastTurn>>

\* getLLMProvider()
GetLLMProvider ==
  /\ lastProvider.call < MaxCalls
  /\ LET n == lastProvider.call + 1
         config == GetLLMConfig(env)
     IN IF providerInstance # Null
          THEN /\ lastProvider' = [call |-> n, kind |-> "returned",
                                   instance |-> providerInstance, error |-> ""]
               /\ UNCHANGED providerInstance
          ELSE IF config.provider = "http"
            THEN /\ providerInstance' = NewHttpProvider(n, config.http.baseUrl)
                 /\ lastProvider' = [call |-> n, kind |-> "returned",
                                     instance |-> providerInstance', error |-> ""]
            ELSE /\ lastProvider' = [call |-> n, kind |-> "thrown", instance |-> Null,
                                     error |-> ProviderError(config.provider)]
                 /\ UNCHANGED providerInstance
  /\ UNCHANGED <<env, regVars, taskUIType, lastTools, lastPrompt, messages, isProcessing,
                 dispatchVars, tasks, turns, issued, appliedSeq, lastCmd, lastTurn>>

\* resetLLMProvider()
ResetLLMProvider ==
  /\ providerInstance' = Null
  /\ UNCHANGED <<env, lastProvider, regVars, taskUIType, lastTools, lastPrompt, messages,
                 isProcessing, dispatchVars, tasks, turns, issued, appliedSeq, lastCmd,
                 lastTurn>>

\* a configuration change: the environment getLLMConfig reads is given other
\* values (a test's stub, a rebuilt configuration)
SetEnv ==
  /\ \E p \in ProviderSettings, u \in BaseUrlSettings :
       env' = [VITE_LLM_PROVIDER |-> p, VITE_API_BASE_URL |-> u]
  /\ UNCHANGED <<providerInstance, lastProvider, regVars, taskUIType, lastTools,
                 lastPrompt, messages, isProcessing, dispatchVars, tasks, turns, issued,
                 appliedSeq, lastCmd, lastTurn>>

FactoryNext ==
  \/ GetLLMProvider
  \/ ResetLLMProvider
  \/ SetEnv

FactorySpec == Init /\ [][FactoryNext]_vars

\* --------------------------------------------------------------- display mode
displayMode ==
  IF panelMode = "task-ui" THEN "full"
  ELSE IF currentIntent # Null THEN "summary"
  ELSE "idle"

TypeOK ==
  /\ isProcessing \in BOOLEAN
  /\ panelMode \in {"context", "task-ui"}
  /\ autoSwitchCountdown \in {NullCountdown} \cup (1..CountdownStart)
  /\ timers \subseteq TimerIds
  /\ cleanupTimer \in TimerIds \cup {NoTimer}
  /\ issued \in 0..MaxTurns
  /\ appliedSeq \in 0..MaxTurns

\* ===================================================================== claims

\* the current activation names a capability the registry resolves
Resolves == currentIntent # Null /\ IntentDef(registry, currentIntent) # Null

\* the current activation was entered by a turn and no presentation command
\* has been given since
FreshSummary == lastCmd = "activate" /\ panelMode = "context"

\* C1 (as claimed): after cancelAutoSwitch, with timer ticks only and no further
\* command or activation, panelMode never becomes 'task-ui'.
C1_NoStrayPromotion == lastCmd = "cancel" => panelMode = "context"

\* C2 (as claimed): on entering summary a countdown runs iff confidence >= 0.8
\* and some required field of the capability is among the extracted entities.
C2_RequiredFieldGate ==
  FreshSummary =>
    (autoSwitchCountdown # NullCountdown
       <=> /\ currentIntent.confidence >= AutoSwitchThreshold
           /\ HasRequiredField(IntentDef(registry, currentIntent),
                               currentIntent.entities))

\* C2 (amended): on entering summary a countdown runs iff confidence >= 0.8 and
\* the capability resolves in the registry, whatever entities were extracted;
\* and an activation that the countdown promoted to full was such a one.
C2_ResolvedGate ==
  /\ FreshSummary =>
       (autoSwitchCountdown # NullCountdown
          <=> /\ currentIntent.confidence >= AutoSwitchThreshold
              /\ GetIntentFn(registry, currentIntent.name) # Null)
  /\ (lastCmd = "activate" /\ panelMode = "task-ui") =>
       /\ currentIntent.confidence >= AutoSwitchThreshold
       /\ GetIntentFn(registry, currentIntent.name) # Null

\* C2 witness: a fresh activation with no required field extracted has its
\* countdown running at the initial value.
C2_Witness ==
  /\ FreshSummary
  /\ ~HasRequiredField(IntentDef(registry, currentIntent), currentIntent.entities)
  /\ GetIntentFn(registry, currentIntent.name) # Null
  /\ autoSwitchCountdown = CountdownStart

DuplicateRegistered ==
  /\ lastRegister # Null
  /\ KeyIndex(lastRegister.before, lastRegister.definition.name) # 0

\* C4 (as claimed): a registerIntent call whose name is already present leaves
\* the registry as it was.
C4_DuplicateRejected == DuplicateRegistered => registry = lastRegister.before

\* C4 (amended): a registerIntent call whose name is already present replaces
\* the definition stored under that name and nothing else: the keys, their
\* order and every other entry are as before, and getIntent returns the new
\* definition.
C4_DuplicateOverwrites ==
  DuplicateRegistered =>
    LET before == lastRegister.before
        d == lastRegister.definition
    IN /\ Len(registry) = Len(before)
       /\ \A i \in 1..Len(before) :
            /\ registry[i][1] = before[i][1]
            /\ before[i][1] # d.name => registry[i] = before[i]
       /\ GetIntentFn(registry, d.name) = d
       /\ Len(GetAllIntentsFn(registry)) = Len(GetAllIntentsFn(before))

\* C4 witness: a duplicate registration changed what getIntent returns.
C4_Witness ==
  /\ DuplicateRegistered
  /\ GetIntentFn(registry, lastRegister.definition.name)
       # GetIntentFn(lastRegister.before, lastRegister.definition.name)

\* a handleSubmit call reaches its finally block in this step (it has just
\* appended the reply or the error text)
TurnEnds == isProcessing /\ ~isProcessing' /\ messages' # messages

\* C5 (as claimed): once a turn has been normalized to none, no countdown of an
\* earlier activation is running any more.
C5_DeclineCancels ==
  lastTurn.outcome = "declined" =>
    (timers = {} /\ autoSwitchCountdown = NullCountdown)

\* C5 (amended): a turn normalized to none leaves the dispatch state exactly
\* as it was: the pending activation stays current and its countdown is
\* neither cancelled nor restarted.
C5_DeclineChangesNothing ==
  [][(TurnEnds /\ lastTurn'.outcome = "declined") => UNCHANGED dispatchVars]_vars

\* C5 witness: a turn was normalized to none while a countdown was running, and
\* that countdown has since promoted the old activation to full.
C5_Witness ==
  /\ lastTurn.outcome = "declined"
  /\ lastTurn.before.countdown # NullCountdown
  /\ lastCmd = "activate"
  /\ panelMode = "task-ui"

\* C6: a turn that yields an invocation of a registered capability while an
\* activation is in summary with a live timer makes the new record the current
\* one exactly as detected, stays in summary, restarts the countdown at 3 and
\* leaves exactly one live timer, the new one.
C6_Supersede ==
  [][(/\ TurnEnds
      /\ lastTurn'.outcome = "applied"
      /\ panelMode = "context" /\ currentIntent # Null /\ timers # {}
      /\ GetIntentFn(registry, lastTurn'.detect.intent.name) # Null)
     => /\ currentIntent' = lastTurn'.detect.intent
        /\ panelMode' = "context"
        /\ autoSwitchCountdown' = CountdownStart
        /\ Cardinality(timers') = 1
        /\ timers' = {cleanupTimer'}]_vars

\* C6 witness: list_tasks replaced add_task while its countdown stood at 2, and
\* the countdown is back at 3 with the new entities only.
C6_Witness ==
  /\ lastTurn.outcome = "applied"
  /\ lastTurn.before.intent # Null
  /\ lastTurn.before.intent.name = "add_task"
  /\ lastTurn.before.countdown = 2
  /\ currentIntent # Null
  /\ currentIntent.name = "list_tasks"
  /\ currentIntent.entities = [filter |-> "all"]
  /\ autoSwitchCountdown = CountdownStart

\* C7: at most one interval timer is live, and a live timer is the one the
\* current effect run started.
C7_SingleCountdown ==
  /\ Cardinality(timers) <= 1
  /\ timers \subseteq {cleanupTimer}

\* C7 witness: an activation replaced another whose timer was live, and a timer
\* is live now.
C7_Witness ==
  /\ lastTurn.outcome = "applied"
  /\ lastTurn.before.timers # {}
  /\ lastCmd = "activate"
  /\ timers # {}

\* C8: whenever a response is applied it is the response of the latest turn
\* issued, and the current activation changes to a record only that way.
C8_IssuanceOrder ==
  [][/\ appliedSeq' # appliedSeq => (appliedSeq' = issued /\ appliedSeq' > appliedSeq)
     /\ (currentIntent' # currentIntent /\ currentIntent' # Null)
          => (appliedSeq' # appliedSeq /\ appliedSeq' = issued)]_vars

\* C8 witness: a later turn's response has been applied while the detection
\* request of an earlier turn is still outstanding.
C8_Witness ==
  \E t \in turns : t.seq < appliedSeq /\ t.detect = Pending

\* C9 (as claimed): a turn whose detectIntent returned an intent ends with
\* that intent as the current activation in summary, whatever generateResponse
\* did.
C9_ReplyIndependent ==
  [][(/\ TurnEnds
      /\ lastTurn'.detect.st = "ok"
      /\ lastTurn'.detect.intent # Null)
     => /\ currentIntent' = lastTurn'.detect.intent
        /\ panelMode' = "context"]_vars

C11_ProcessingEnds == isProcessing ~> ~isProcessing

\* C11 witness: the first turn ended with the error message and a second turn
\* was then accepted and answered.
C11_Witness ==
  /\ ~isProcessing
  /\ messages = << [role |-> "user", content |-> "input"],
                   [role |-> "assistant", content |-> "error"],
                   [role |-> "user", content |-> "input"],
                   [role |-> "assistant", content |-> "reply"] >>

\* a step of the interval callback: the dispatch state changes and nothing else
TickStep ==
  /\ currentIntent' = currentIntent
  /\ <<panelMode, autoSwitchCountdown, timers>>' # <<panelMode, autoSwitchCountdown, timers>>
  /\ UNCHANGED <<messages, isProcessing, tasks, turns, lastCmd, lastTurn>>

\* C12: an invocation of a registered capability enters summary with the
\* countdown at 3; with no command, each tick at a countdown above 1 lowers it
\* by one and stays in summary, the tick at 1 (the third) switches to full with
\* the record untouched; and with the interval firing, full is reached unless a
\* command or a newer activation comes first.
C12_NaturalExpiry ==
  /\ [][(TurnEnds /\ lastTurn'.outcome = "applied"
           /\ GetIntentFn(registry, lastTurn'.detect.intent.name) # Null)
         => /\ panelMode' = "context"
            /\ autoSwitchCountdown' = CountdownStart]_vars
  /\ [][(FreshSummary /\ Resolves /\ TickStep)
         => IF autoSwitchCountdown > 1
              THEN /\ panelMode' = "context"
                   /\ autoSwitchCountdown' = autoSwitchCountdown - 1
              ELSE /\ autoSwitchCountdown = 1
                   /\ panelMode' = "task-ui"
                   /\ autoSwitchCountdown' = NullCountdown
                   /\ timers' = {}]_vars
  /\ \A k \in 1..MaxTurns :
       (FreshSummary /\ Resolves /\ appliedSeq = k)
         ~> (panelMode = "task-ui" \/ lastCmd # "activate" \/ appliedSeq # k)

\* C12 witness: from idle, add_task {title, priority} was promoted to full by
\* the countdown alone, and the entities are the two extracted keys.
C12_Witness ==
  /\ issued = 1
  /\ lastTurn.outcome = "applied"
  /\ lastTurn.before.intent = Null
  /\ lastCmd = "activate"
  /\ panelMode = "task-ui"
  /\ currentIntent # Null
  /\ currentIntent.name = "add_task"
  /\ DOMAIN currentIntent.entities = {"title", "priority"}
  /\ currentIntent.entities = [title |-> "buy milk", priority |-> "high"]

\* C13: the click on "Open Now" / "Open Task UI" switches to full in that
\* step, whatever the countdown stood at, and from then on the panel is in
\* full, no interval timer is live (so no tick follows) and the countdown is
\* absent.
C13_PromoteNowCancels ==
  /\ [](lastCmd \in {"promote", "open"} =>
          /\ panelMode = "task-ui"
          /\ timers = {}
          /\ autoSwitchCountdown = NullCountdown)
  /\ [][(lastCmd' \in {"promote", "open"} /\ lastCmd' # lastCmd)
         => /\ panelMode = "context" /\ panelMode' = "task-ui"
            /\ currentIntent' = currentIntent
            /\ lastCmd' = "promote" <=> autoSwitchCountdown \in 1..CountdownStart]_vars

\* C13 witness: "Open Now" was clicked while the countdown of an applied
\* intent was running, and the panel is in full with no timer and no countdown.
C13_Witness ==
  /\ lastCmd = "promote"
  /\ lastTurn.outcome = "applied"
  /\ panelMode = "task-ui"
  /\ timers = {}
  /\ autoSwitchCountdown = NullCountdown

\* the commands through which a component ends its activation
ClearingCmds == {"dismiss", "create", "complete", "issue"}

\* C14: after a component's Cancel / Close, Create Task, task completion or
\* Issue Bonus there is no current intent, the panel is in 'context' (idle) and
\* no countdown or timer exists.
C14_CompletionReturnsToIdle ==
  lastCmd \in ClearingCmds =>
    /\ currentIntent = Null
    /\ panelMode = "context"
    /\ displayMode = "idle"
    /\ autoSwitchCountdown = NullCountdown
    /\ timers = {}

\* C14 witness: a task was created through add_task and then completed
\* through complete_task, and the controller is idle.
C14_Witness ==
  /\ lastCmd = "complete"
  /\ Len(tasks) = 1
  /\ tasks[1].completed
  /\ displayMode = "idle"

\* C15: a turn that ends in idle with no tool call changes nothing of the
\* dispatch state; when the turn completes, the message appended is the
\* generated reply, not the error text.
C15_DeclineInIdle ==
  [][(TurnEnds /\ displayMode = "idle" /\ lastTurn'.response = NoToolUse)
     => /\ UNCHANGED dispatchVars
        /\ displayMode' = "idle"
        /\ lastTurn'.outcome = "declined"
             => messages' = Append(messages, [role |-> "assistant", content |-> "reply"])
        /\ lastTurn'.outcome \in {"declined", "failed"}]_vars

\* C15 witness: a turn with no tool call completed in idle and was answered
\* with the reply.
C15_Witness ==
  /\ lastTurn.outcome = "declined"
  /\ lastTurn.before.intent = Null
  /\ lastTurn.before.mode = "context"
  /\ displayMode = "idle"
  /\ ~isProcessing
  /\ messages[Len(messages)] = [role |-> "assistant", content |-> "reply"]

\* C16 (as claimed): every key of the current intent's entities is a field
\* its definition declares.
C16_DeclaredKeysOnly ==
  Resolves =>
    DOMAIN currentIntent.entities
      \subseteq PropertyNames(IntentDef(registry, currentIntent))

\* C16 (amended): the entities of an applied intent have exactly the keys of
\* the tool call's input, declared or not.
C16_PayloadKeysKept ==
  [][(TurnEnds /\ lastTurn'.outcome = "applied")
     => DOMAIN currentIntent'.entities = DOMAIN lastTurn'.response.input]_vars

\* C16 witness: the current intent of a registered capability carries a key
\* its definition does not declare.
C16_Witness ==
  /\ Resolves
  /\ \E k \in DOMAIN currentIntent.entities :
       k \notin PropertyNames(IntentDef(registry, currentIntent))

\* C17 (as claimed): every declared field among the current intent's entities
\* holds a value of the declared kind.
C17_ValuesHaveDeclaredKind ==
  Resolves =>
    \A k \in DOMAIN currentIntent.entities
             \cap PropertyNames(IntentDef(registry, currentIntent)) :
      HasKind(PropertyOf(IntentDef(registry, currentIntent), k),
              currentIntent.entities[k])

\* C17 (amended): every value of the tool call's input is in the entities of
\* the applied intent as it came, of the declared kind or not, and the
\* activation enters summary, with the countdown if its capability resolves.
C17_ValuesPassedThrough ==
  [][(TurnEnds /\ lastTurn'.outcome = "applied")
     => /\ \A k \in DOMAIN lastTurn'.response.input :
             /\ k \in DOMAIN currentIntent'.entities
             /\ currentIntent'.entities[k] = lastTurn'.response.input[k]
        /\ panelMode' = "context"
        /\ GetIntentFn(registry, currentIntent'.name) # Null
             => autoSwitchCountdown' = CountdownStart]_vars

\* C17 witness: issue_bonus is in summary with its countdown running and an
\* amount that is not a number.
C17_Witness ==
  /\ FreshSummary
  /\ currentIntent # Null
  /\ currentIntent.name = "issue_bonus"
  /\ ~HasKind(PropertyOf(issueBonus, "amount"), currentIntent.entities["amount"])
  /\ autoSwitchCountdown = CountdownStart

\* the detectIntent result recorded for a request agrees with the response:
\* null for no tool call, an intent of confidence 1.0 for a tool call
CertaintyAssigned(response, detect) ==
  detect.st = "ok" =>
    IF response = NoToolUse
      THEN detect.intent = Null
      ELSE /\ detect.intent # Null
           /\ detect.intent.confidence = ToolCallConfidence

\* C18: every tool call yields an intent of confidence exactly 1.0, which
\* meets the threshold, and a response without tool call yields null.
C18_CertaintyAssignment ==
  /\ \A t \in turns : CertaintyAssigned(t.response, t.detect)
  /\ CertaintyAssigned(lastTurn.response, lastTurn.detect)
  /\ currentIntent # Null =>
       /\ currentIntent.confidence = ToolCallConfidence
       /\ currentIntent.confidence >= AutoSwitchThreshold

\* C18 witness: an intent of confidence 1.0 is current and the turn after it
\* had no tool call and yielded null.
C18_Witness ==
  /\ currentIntent # Null
  /\ currentIntent.confidence = ToolCallConfidence
  /\ lastTurn.response = NoToolUse
  /\ lastTurn.detect = Ok(Null)

\* the detectIntent promise has one outcome: a value (an intent or null) for a
\* model response, a rejection for a transport failure
OneOutcome(response, detect) ==
  /\ response \in ModelResponses <=> detect.st = "ok"
  /\ response = Failed <=> detect.st = "fail"
  /\ detect.st = "ok" => DOMAIN detect = {"st", "intent"}
  /\ detect.st = "fail" => DOMAIN detect = {"st"}

\* C19: each detection has exactly one outcome, and a turn either leaves the
\* dispatch state as it was or installs the intent whole: the record, panel
\* mode 'context' and the countdown state that goes with the record.
C19_NormalizerTotality ==
  /\ [](/\ \A t \in turns : t.detect # Pending => OneOutcome(t.response, t.detect)
        /\ lastTurn.outcome # "none" => OneOutcome(lastTurn.response, lastTurn.detect))
  /\ [][TurnEnds =>
         IF lastTurn'.outcome = "applied"
           THEN /\ currentIntent' = lastTurn'.detect.intent
                /\ panelMode' = "context"
                /\ autoSwitchCountdown' =
                     IF GetIntentFn(registry, currentIntent'.name) # Null
                       THEN CountdownStart ELSE NullCountdown
                /\ timers' = IF GetIntentFn(registry, currentIntent'.name) # Null
                               THEN {cleanupTimer'} ELSE {}
           ELSE UNCHANGED dispatchVars]_vars
  /\ [][(currentIntent' # currentIntent /\ currentIntent' # Null)
         => (TurnEnds /\ panelMode' = "context")]_vars

\* C19 witness: an intent was applied while another capability was in full,
\* and both the record and the panel mode changed.
C19_Witness ==
  /\ lastTurn.outcome = "applied"
  /\ lastTurn.before.mode = "task-ui"
  /\ lastTurn.before.intent # lastTurn.detect.intent
  /\ currentIntent = lastTurn.detect.intent
  /\ panelMode = "context"
  /\ appliedSeq = issued
  /\ lastCmd = "activate"

\* the names of a tool list, in order
ToolNames(tools) == [i \in 1..Len(tools) |-> tools[i].name]

C21_CompilerShape ==
  /\ [](lastTools # Null =>
          LET reg == lastTools.registry
              tools == lastTools.tools
          IN /\ Len(tools) = Len(reg)
             /\ \A i \in 1..Len(reg) :
                  /\ DOMAIN tools[i] = {"name", "description", "input_schema"}
                  /\ DOMAIN tools[i].input_schema = {"type", "properties", "required"}
                  /\ tools[i].name = reg[i][2].name
                  /\ tools[i].description = reg[i][2].description
                  /\ tools[i].input_schema.type = "object"
                  /\ tools[i].input_schema.properties = reg[i][2].properties
                  /\ tools[i].input_schema.required = reg[i][2].required
             /\ \A i, j \in 1..Len(tools) : tools[i].name = tools[j].name => i = j
             /\ reg = <<>> => tools = <<>>)
  /\ [][lastTools' # lastTools => registry' = registry]_vars

\* C21 witness: the built-in definitions were compiled; the tool of list_tasks
\* requires no field and the tool of issue_bonus requires two.
C21_Witness ==
  /\ lastTools # Null
  /\ lastTools.registry = BuiltInRegistry
  /\ Len(lastTools.tools) = 4
  /\ lastTools.tools[2].name = "list_tasks"
  /\ lastTools.tools[2].input_schema.required = <<>>
  /\ lastTools.tools[4].input_schema.required = <<"employeeName", "amount">>
  /\ registry = BuiltInRegistry

\* C22 (as claimed): a getIntent(name) call returns undefined or the definition
\* stored in the registry under that name, whose own name is that key, and
\* nothing else, whatever the name.
C22_LookupOnlyRegistered ==
  [][lastLookup' # lastLookup =>
       LET name == lastLookup'.name
           result == lastLookup'.result
           i == KeyIndex(registry, name)
       IN \/ i = 0 /\ result = Null
          \/ i # 0 /\ result = registry[i][2] /\ result.name = name]_vars

\* C23 (as claimed): a registerIntent call with a definition whose name is empty
\* or that requires a field it does not declare leaves the registry unchanged,
\* so every definition in the registry is well-formed.
C23_RegisteredWellFormed ==
  /\ [](\A i \in 1..Len(registry) : WellFormed(registry[i][2]))
  /\ [][(lastRegister' # lastRegister /\ ~WellFormed(lastRegister'.definition))
         => registry' = registry]_vars

\* C23 (amended): registerIntent stores any definition under its name, be the
\* name empty or a required field undeclared, and touches no other entry; the
\* definition is then what getIntent returns for that name and its tool is
\* compiled like any other.
C23_RegisterAcceptsAny ==
  /\ [][lastRegister' # lastRegister =>
         LET d == lastRegister'.definition
             i == KeyIndex(registry', d.name)
         IN /\ i # 0
            /\ registry'[i] = <<d.name, d>>
            /\ GetIntentFn(registry', d.name) = d
            /\ Len(registry') = IF KeyIndex(registry, d.name) = 0
                                  THEN Len(registry) + 1 ELSE Len(registry)
            /\ \A j \in 1..Len(registry) : j # i => registry'[j] = registry[j]]_vars
  /\ [](lastTools # Null =>
          \A i \in 1..Len(lastTools.tools) :
            lastTools.tools[i] = Tool(lastTools.registry[i][2]))

\* C23 witness: the registry holds a definition under the empty name and one
\* that requires the undeclared field `when`, and both were compiled to tools.
C23_Witness ==
  /\ registry = <<<<"", unnamedIntent>>, <<"set_reminder", danglingRequired>>>>
  /\ lastTools # Null
  /\ lastTools.registry = registry
  /\ lastTools.tools[1].name = ""
  /\ lastTools.tools[2].input_schema.required = <<"taskIdentifier", "when">>
  /\ ~WellFormed(unnamedIntent)
  /\ ~WellFormed(danglingRequired)

\* the page is reloaded in this step
ReloadStep ==
  /\ lastCmd' = "reload"
  /\ lastTurn'.outcome = "none"
  /\ turns' = {}
  /\ issued' = issued

\* C24: a reload starts with currentIntent null, panelMode 'context',
\* isProcessing false and no countdown or timer, whatever they were before, and
\* with tasks and messages as they were; only tasks and messages are ever
\* written to storage.
C24_ReloadResets ==
  /\ [][ReloadStep =>
         /\ currentIntent' = Null
         /\ panelMode' = "context"
         /\ isProcessing' = FALSE
         /\ autoSwitchCountdown' = NullCountdown
         /\ timers' = {}
         /\ messages' = messages
         /\ tasks' = tasks]_vars
  /\ [](DOMAIN Partialize(StoreState) = {"tasks", "messages"})

\* C24 witness: the page was reloaded while the second turn's requests were in
\* flight and a task created in the first turn was in the store; after the
\* reload the task and the unanswered user message are there and nothing is
\* being processed.
C24_Witness ==
  /\ lastCmd = "reload"
  /\ issued = 2
  /\ ~isProcessing
  /\ turns = {}
  /\ Len(tasks) = 1
  /\ Len(messages) = 4
  /\ messages[3].content = "created"
  /\ messages[4].role = "user"
  /\ displayMode = "idle"

\* C25 (as claimed): an activation of a registered capability none of whose
\* required fields was extracted is shown in summary and never has a countdown.
C25_UnqualifiedNoCountdown ==
  (/\ lastCmd = "activate"
   /\ Resolves
   /\ ~HasRequiredField(IntentDef(registry, currentIntent), currentIntent.entities))
    => /\ panelMode = "context"
       /\ autoSwitchCountdown = NullCountdown

\* C25 (amended): an activation of a registered capability reaches summary with
\* its countdown running whether or not a required field was extracted (every
\* activation carries confidence 1.0); in summary the capability can always be
\* opened by hand, with "Open Now" while the countdown is shown and with "Open
\* Task UI" once it was cancelled, and the click leads to full.
C25_ManualPromotion ==
  /\ (/\ FreshSummary
      /\ Resolves
      /\ ~HasRequiredField(IntentDef(registry, currentIntent), currentIntent.entities))
       => /\ currentIntent.confidence = ToolCallConfidence
          /\ autoSwitchCountdown \in 1..CountdownStart
  /\ (panelMode = "context" /\ Resolves) => ENABLED PromoteNow
  /\ (lastCmd = "cancel" /\ panelMode = "context")
       => /\ autoSwitchCountdown = NullCountdown
          /\ ENABLED PromoteNow
  /\ lastCmd = "open" => panelMode = "task-ui" /\ Resolves

\* C25 witness: add_task arrived with no title, its countdown was cancelled and
\* "Open Task UI" was clicked: the form is open.
C25_Witness ==
  /\ lastCmd = "open"
  /\ panelMode = "task-ui"
  /\ currentIntent.name = "add_task"
  /\ ~HasRequiredField(IntentDef(registry, currentIntent), currentIntent.entities)
  /\ ComponentShown("add_task")

\* C26 (as claimed): the countdown is absent or in 1..3; it is present only in
\* summary and with a live timer; a timer is live only while the countdown is
\* present; the countdown is never present in idle or full.
C26_CountdownPresence ==
  /\ autoSwitchCountdown \in {NullCountdown} \cup (1..CountdownStart)
  /\ autoSwitchCountdown # NullCountdown
       => /\ displayMode = "summary"
          /\ timers # {}
  /\ timers # {} => autoSwitchCountdown # NullCountdown
  /\ displayMode \in {"idle", "full"} => autoSwitchCountdown = NullCountdown

\* C27: in the legacy detect_intent variant, a detection with confidence >= 0.8
\* is set and starts the countdown; one with 0.7 <= confidence < 0.8 is set and
\* shown in the context panel with no countdown or timer, can be opened by
\* hand only and is never opened by a tick; one with confidence < 0.7 or with
\* intent 'none' makes detectIntent return null and leaves the current intent
\* and the panel as they were.
C27_LegacyTiers ==
  /\ [][(TurnEnds /\ lastTurn'.outcome # "failed" /\ lastTurn'.response # NoToolUse) =>
         LET input == lastTurn'.response.input IN
           IF input.confidence < LegacyFloor \/ input.intent = "none"
             THEN /\ lastTurn'.detect.intent = Null
                  /\ UNCHANGED legacyDispatchVars
             ELSE /\ currentIntent' = [name |-> input.intent,
                                       confidence |-> input.confidence,
                                       entities |-> input.entities]
                  /\ panelMode' = "context"
                  /\ IF input.confidence >= AutoSwitchThreshold
                       THEN /\ autoSwitchCountdown' = CountdownStart
                            /\ timers' = {cleanupTimer'}
                       ELSE /\ autoSwitchCountdown' = NullCountdown
                            /\ timers' = {}]_vars
  /\ []((currentIntent # Null /\ currentIntent.confidence < AutoSwitchThreshold)
          => /\ currentIntent.confidence >= LegacyFloor
             /\ autoSwitchCountdown = NullCountdown
             /\ timers = {}
             /\ panelMode = "context" => ENABLED LegacyPromoteNow
             /\ panelMode = "task-ui" => lastCmd = "open")

\* C27 witness: add_task was detected with confidence 0.7 and is shown with no
\* countdown; the next detection, list_tasks with confidence 0.6, was dropped
\* and left it in place.
C27_Witness ==
  /\ lastTurn.outcome = "declined"
  /\ lastTurn.response # NoToolUse
  /\ lastTurn.response.input.intent = "list_tasks"
  /\ lastTurn.response.input.confidence = 6
  /\ currentIntent # Null
  /\ currentIntent.name = "add_task"
  /\ currentIntent.confidence = 7
  /\ taskUIType = "add-task"
  /\ panelMode = "context"
  /\ autoSwitchCountdown = NullCountdown
  /\ lastCmd = "activate"

\* a turn issued after the current activation is awaited, and no command has
\* been given since the activation
NewerTurnInFlight ==
  /\ isProcessing
  /\ appliedSeq < issued
  /\ FreshSummary
  /\ Resolves

\* C28 (as claimed): while a user message submitted after the current
\* activation is in flight, no tick of the activation's countdown moves the
\* panel to 'task-ui'.
C28_SupersededAtSubmit ==
  [][(NewerTurnInFlight /\ TickStep) => panelMode' = "context"]_vars

\* C28 (amended): submitting a message leaves the countdown, its timer and the
\* rest of the dispatch state as they are; while the new request is in flight
\* the countdown of the previous activation keeps running under the same tick
\* rule and promotes that activation when it expires.
C28_CountdownSurvivesSubmit ==
  /\ [][(~isProcessing /\ isProcessing') => UNCHANGED dispatchVars]_vars
  /\ [](NewerTurnInFlight
          => /\ autoSwitchCountdown \in 1..CountdownStart
             /\ timers = {cleanupTimer})
  /\ [][(NewerTurnInFlight /\ TickStep) =>
         IF autoSwitchCountdown <= 1
           THEN /\ panelMode' = "task-ui"
                /\ currentIntent' = currentIntent
                /\ autoSwitchCountdown' = NullCountdown
                /\ timers' = {}
                /\ isProcessing'
           ELSE /\ autoSwitchCountdown' = autoSwitchCountdown - 1
                /\ panelMode' = "context"]_vars

\* C28 witness: the second message was submitted during the countdown of the
\* first turn's add_task; its requests are both pending and the countdown has
\* come down to 1, so the next tick opens add_task.
C28_Witness ==
  /\ NewerTurnInFlight
  /\ issued = 2
  /\ appliedSeq = 1
  /\ currentIntent.name = "add_task"
  /\ autoSwitchCountdown = 1
  /\ \E t \in turns : t.seq = 2 /\ t.detect = Pending /\ t.gen = "pending"

\* C29 (as claimed): isProcessing is true exactly while a request of some turn
\* is outstanding, and at most one detectIntent request is outstanding.
C29_OneDetectOutstanding ==
  /\ isProcessing <=> turns # {}
  /\ Cardinality({t \in turns : t.detect = Pending}) <= 1

\* C29 (amended): a user message is appended only by a submission made while
\* isProcessing is false and with an input that is not empty after trimming;
\* that step issues exactly one turn, with one detectIntent and one
\* generateResponse request; isProcessing is true exactly while the Promise.all
\* of some turn is unsettled, and there is at most one such turn.  A turn that
\* has settled with requests still outstanding is one whose Promise.all was
\* rejected.
C29_OneTurnAwaited ==
  /\ [][(/\ Len(messages') > Len(messages)
         /\ messages'[Len(messages')].role = "user")
        => /\ ~isProcessing
           /\ isProcessing'
           /\ messages' = Append(messages, [role |-> "user", content |-> "input"])
           /\ issued' = issued + 1
           /\ turns' = turns \cup {[seq |-> issued', response |-> Pending,
                                    detect |-> Pending, gen |-> "pending",
                                    settled |-> FALSE]}]_vars
  /\ [][issued' # issued => Len(messages') = Len(messages) + 1]_vars
  /\ [](isProcessing <=> \E t \in turns : ~t.settled)
  /\ [](Cardinality({t \in turns : ~t.settled}) <= 1)
  /\ [](\A t \in turns : t.settled => AllRejected(t))
  /\ [](\A t1, t2 \in turns : t1.seq = t2.seq => t1 = t2)

\* C29 witness: the first turn's generateResponse failed, which ended the turn
\* while its detectIntent request was outstanding; the second turn was
\* submitted, so two detectIntent requests are outstanding.
C29_Witness ==
  /\ isProcessing
  /\ Cardinality({t \in turns : t.detect = Pending}) = 2
  /\ \E t \in turns : t.seq = 1 /\ t.settled /\ t.gen = "fail"
  /\ \E t \in turns : t.seq = 2 /\ ~t.settled
  /\ messages[2] = [role |-> "assistant", content |-> "error"]

\* C30: an intent that arrives while the panel is in full replaces the current
\* record and returns the panel to summary, where the countdown is started or
\* not by the same rule as for any activation; no step ends in full with a
\* record other than the one it started with, so full is entered only from
\* summary with the record shown there.
C30_InvocationFromFull ==
  /\ [][(TurnEnds /\ lastTurn'.outcome = "applied" /\ panelMode = "task-ui") =>
         LET starts == /\ currentIntent'.confidence >= AutoSwitchThreshold
                       /\ GetIntentFn(registry, currentIntent'.name) # Null
         IN /\ currentIntent' = lastTurn'.detect.intent
            /\ panelMode' = "context"
            /\ autoSwitchCountdown' = IF starts THEN CountdownStart ELSE NullCountdown
            /\ timers' = IF starts THEN {cleanupTimer'} ELSE {}]_vars
  /\ [][panelMode' = "task-ui" => currentIntent' = currentIntent]_vars
  /\ [][(panelMode = "context" /\ panelMode' = "task-ui") => currentIntent # Null]_vars

\* C30 witness: list_tasks arrived while another capability was in full, was
\* shown in summary and has by now been opened by its own countdown.
C30_Witness ==
  /\ lastTurn.outcome = "applied"
  /\ lastTurn.before.mode = "task-ui"
  /\ lastTurn.before.intent # Null
  /\ lastTurn.before.intent.name # "list_tasks"
  /\ currentIntent = lastTurn.detect.intent
  /\ currentIntent.name = "list_tasks"
  /\ lastCmd = "activate"
  /\ panelMode = "task-ui"
  /\ autoSwitchCountdown = NullCountdown

\* the messages at positions 1..k of ms that satisfy P
CountUpTo(ms, k, P(_)) == Cardinality({i \in 1..k : P(ms[i])})

IsUserMessage(m) == m.role = "user"

\* an assistant message appended by handleSubmit itself
IsTurnAnswer(m) == m.role = "assistant" /\ m.content \in {"reply", "error"}

\* C31: accepting a turn appends its user message; the step in which a turn
\* ends appends one assistant message, the reply if Promise.all fulfilled and
\* an error text if it rejected, and no other step of a turn touches the
\* messages; no step removes or reorders earlier messages; an answer always
\* comes after the user message of its turn; and an intent is applied only in
\* the step that appends the reply of its turn.
C31_ChatLogPerTurn ==
  /\ [][issued' # issued
         => messages' = Append(messages, [role |-> "user", content |-> "input"])]_vars
  /\ [][(isProcessing /\ ~isProcessing' /\ ~ReloadStep)
         => /\ Len(messages') = Len(messages) + 1
            /\ messages' =
                 Append(messages,
                        [role |-> "assistant",
                         content |-> IF lastTurn'.outcome = "failed" THEN "error"
                                                                     ELSE "reply"])]_vars
  /\ [][(turns' # turns /\ issued' = issued /\ isProcessing' = isProcessing)
         => messages' = messages]_vars
  /\ [][/\ Len(messages') >= Len(messages)
        /\ \A i \in 1..Len(messages) : messages'[i] = messages[i]]_vars
  /\ [](\A k \in 1..Len(messages) :
          /\ CountUpTo(messages, k, IsTurnAnswer) <= CountUpTo(messages, k, IsUserMessage)
          /\ CountUpTo(messages, k, IsUserMessage) <= issued)
  /\ [](CountUpTo(messages, Len(messages), IsUserMessage) = issued)
  /\ [](isProcessing => CountUpTo(messages, Len(messages), IsTurnAnswer) < issued)
  /\ [][appliedSeq' # appliedSeq
         => messages' = Append(messages, [role |-> "assistant", content |-> "reply"])]_vars

\* C31 witness: while the second turn was in flight the add_task form opened by
\* the first turn was submitted; the second turn's reply follows its user
\* message, with the form's message in between.
C31_Witness ==
  /\ Len(messages) = 5
  /\ [i \in 1..5 |-> messages[i].content]
       = <<"input", "reply", "input", "created", "reply">>
  /\ [i \in 1..5 |-> messages[i].role]
       = <<"user", "assistant", "user", "assistant", "assistant">>
  /\ ~isProcessing
  /\ lastTurn.outcome # "failed"

\* the label that names the role of a message
RoleLabel(role) == IF role = "user" THEN "User" ELSE "Assistant"

\* C32 (as claimed): in the history last sent to generateResponse, every entry
\* but the last (the task context) is the content of the message at the same
\* position and carries the label of that message's role.
C32_HistoryRoleLabels ==
  \A i \in 1..(Len(lastPrompt) - 1) :
    /\ lastPrompt[i].msg = messages[i].content
    /\ lastPrompt[i].label = RoleLabel(messages[i].role)

\* the ids toggleTask may be called with: those of the tasks and two of no task
ToggleIds == 0..(Len(tasks) + 1)

\* ts2 is ts with the completed flag of the tasks with this id flipped and
\* nothing else changed
FlippedOnly(ts, ts2, id) ==
  /\ Len(ts2) = Len(ts)
  /\ \A i \in 1..Len(ts) :
       /\ ts2[i].id = ts[i].id
       /\ ts2[i].title = ts[i].title
       /\ ts2[i].dueDate = ts[i].dueDate
       /\ ts2[i].priority = ts[i].priority
       /\ ts2[i].completed = IF ts[i].id = id THEN ~ts[i].completed
                                              ELSE ts[i].completed

\* C33: toggleTask(id) flips the completed flag of the task with that id and
\* changes no other task, field, position or the length of the list; with an id
\* of no task it changes nothing; applied twice it gives back the list it
\* started from; and the checkbox of the task list, which calls it, leaves the
\* dispatch state and the messages alone.
C33_ToggleFrameInvolution ==
  /\ [](\A id \in ToggleIds :
          /\ FlippedOnly(tasks, ToggleTaskFn(tasks, id), id)
          /\ (\A i \in 1..Len(tasks) : tasks[i].id # id)
               => ToggleTaskFn(tasks, id) = tasks
          /\ ToggleTaskFn(ToggleTaskFn(tasks, id), id) = tasks)
  /\ [][(ComponentShown("list_tasks") /\ tasks' # tasks)
         => /\ \E i \in 1..Len(tasks) :
                 /\ tasks' = ToggleTaskFn(tasks, tasks[i].id)
                 /\ tasks'[i].completed = ~tasks[i].completed
                 /\ \A j \in 1..Len(tasks) : j # i => tasks'[j] = tasks[j]
            /\ UNCHANGED <<dispatchVars, messages, isProcessing>>]_vars

\* C33 witness: the task list is on screen in the first turn of a session that
\* started with two open tasks of the same title; the checkbox of the first has
\* been ticked and the second is still open
C33_Witness ==
  /\ ComponentShown("list_tasks")
  /\ issued = 1
  /\ Len(tasks) = 2
  /\ tasks[1].title = "Untitled Task" /\ tasks[1].completed
  /\ tasks[2].title = "Untitled Task" /\ ~tasks[2].completed

\* the title the add_task form holds, prefilled from the entities
FormTitle == Entity(currentIntent.entities, "title")

\* C34: in the add_task form, Create Task appends one task, not completed, at
\* the end of the task list with the form's title ('Untitled Task' when the
\* form's title is empty), keeps the tasks before it, appends one assistant
\* message and leaves the controller idle; Cancel leaves the tasks and the
\* messages and also leaves the controller idle; and no task ever has an empty
\* title.
C34_TaskCreationEffect ==
  /\ [][(ComponentShown("add_task") /\ tasks' # tasks)
         => /\ Len(tasks') = Len(tasks) + 1
            /\ \A i \in 1..Len(tasks) : tasks'[i] = tasks[i]
            /\ ~tasks'[Len(tasks')].completed
            /\ tasks'[Len(tasks')].title =
                 IF FormTitle = "" THEN "Untitled Task" ELSE FormTitle
            /\ \A i \in 1..Len(tasks) : tasks[i].id # tasks'[Len(tasks')].id
            /\ messages' = Append(messages, [role |-> "assistant",
                                             content |-> "created"])
            /\ displayMode' = "idle"
            /\ currentIntent' = Null]_vars
  /\ [][(ComponentShown("add_task") /\ lastCmd # "dismiss" /\ lastCmd' = "dismiss")
         => /\ tasks' = tasks
            /\ messages' = messages
            /\ displayMode' = "idle"
            /\ currentIntent' = Null]_vars
  /\ [][(ComponentShown("add_task") /\ displayMode' = "idle" /\ messages' = messages)
         => tasks' = tasks]_vars
  /\ [](\A i \in 1..Len(tasks) : tasks[i].title # "")

\* C34 witness: a form without a title was submitted in a session that started
\* with two stored tasks; the new task is the third, open and named
\* 'Untitled Task', the stored tasks are as they were and the controller is
\* idle
C34_Witness ==
  /\ lastCmd = "create"
  /\ displayMode = "idle"
  /\ Len(tasks) = 3
  /\ tasks[1].title = "buy milk" /\ ~tasks[1].completed
  /\ tasks[2].title = "Untitled Task" /\ tasks[2].completed
  /\ tasks[3].title = "Untitled Task" /\ ~tasks[3].completed
  /\ tasks[3].priority = "medium"
  /\ Len(messages) = 3
  /\ messages[3].content = "created"

\* the entities complete_task can be activated with: no taskIdentifier, one
\* that is part of a title, one that is a whole title and one of no title
IdentifierEntities ==
  { EmptyObject,
    [taskIdentifier |-> ""],
    [taskIdentifier |-> "milk"],
    [taskIdentifier |-> "Untitled Task"],
    [taskIdentifier |-> "car"] }

\* C35: whatever the task list and the taskIdentifier, CompleteTaskUI offers
\* only tasks that are not completed; a step of the component that changes the
\* tasks turns exactly one task from not completed to completed and leaves the
\* rest; no step taken while the component is shown turns a completed task
\* back; and Cancel changes no task.
C35_CompleteNeverUncompletes ==
  /\ [](\A entities \in IdentifierEntities :
          \A i \in OfferedTasks(tasks, entities) : ~tasks[i].completed)
  /\ [](ComponentShown("complete_task")
          => \A i \in OfferedTasks(tasks, currentIntent.entities) :
               ~tasks[i].completed)
  /\ [][(ComponentShown("complete_task") /\ tasks' # tasks)
         => /\ Len(tasks') = Len(tasks)
            /\ \E i \in 1..Len(tasks) :
                 /\ ~tasks[i].completed
                 /\ tasks'[i] = [tasks[i] EXCEPT !.completed = TRUE]
                 /\ \A j \in 1..Len(tasks) : j # i => tasks'[j] = tasks[j]]_vars
  /\ [][ComponentShown("complete_task")
         => \A i \in 1..Len(tasks) : tasks[i].completed => tasks'[i].completed]_vars
  /\ [][(ComponentShown("complete_task") /\ lastCmd # "dismiss" /\ lastCmd' = "dismiss")
         => tasks' = tasks]_vars

\* C35 witness: in the first turn of a session that started with an open
\* 'buy milk' and a completed 'Untitled Task', complete_task was activated with
\* 'milk' and the open task was completed through the component; the task that
\* was completed at start-up still is
C35_Witness ==
  /\ lastCmd = "complete"
  /\ issued = 1
  /\ Len(tasks) = 2
  /\ tasks[1].title = "buy milk" /\ tasks[1].completed
  /\ tasks[2].title = "Untitled Task" /\ tasks[2].completed

\* the step is a getLLMProvider call
ProviderCalled == lastProvider'.call = lastProvider.call + 1

====
